---- MODULE Spec2Model ----
(***************************************************************************)
(* The alert monitor of the dashboard: the EarthquakeWidget React          *)
(* component in its three variants.                                        *)
(*                                                                         *)
(*   "full"       src/unnamed/part_002, lines 182-648: quake, tsunami and  *)
(*                EEW feeds, dynamic polling, alert sound, auto rotation   *)
(*   "eewOnly"    src/unnamed/part_002, lines 724-856: EEW feed only       *)
(*   "component"  src/components/EarthquakeWidget.tsx: the three feeds,    *)
(*                fixed polling, no alert sound, no auto rotation          *)
(*                                                                         *)
(* One behaviour mounts one variant (the variable widget, fixed by Init).  *)
(* The variables are the component's useState cells, the timers it has     *)
(* armed, the fetches in flight and the effects React still has to run.    *)
(*                                                                         *)
(* React is modelled as follows.  A set-state call that changes a cell     *)
(* makes pending every effect that lists the cell among its dependencies;  *)
(* RunEffects* is one render's effect pass: it runs the pending effects, in*)
(* source order, all of them reading the rendered values, and the cells    *)
(* they set make the next pass pending.  The pass is run before the next   *)
(* poller tick, response or click is handled.  The rotation interval alone *)
(* is followed into the gap between a commit and its pass, where it is     *)
(* still armed although its effect is about to clear it: its callback      *)
(* reads no cell (RotationTickEarly).  A timer callback, a response        *)
(* continuation and a click handler read the cells of the render that      *)
(* created them (their closure), so each carries the testMode it captured. *)
(*                                                                         *)
(* Time is in seconds; Date.now() is the variable now.                     *)
(***************************************************************************)
EXTENDS Integers, Sequences, FiniteSets, TLC

\* ---------------------------------------------------------------- bounds

\* The clock advances MaxTicks times (by TimeStep seconds each).
MaxTicks == 2
\* At most MaxInFlight fetches of one kind are in flight; one more is dropped.
MaxInFlight == 1
\* At most MaxTimers intervals or timeouts of one kind are armed.
MaxTimers == 2
MaxTimeouts == 1       \* delayed refreshes armed at once
MaxParts == 2          \* pieces a translated place name is made of
MaxOverlap == 2        \* details fetches tracked in flight at once
MaxContexts == 3       \* audio contexts counted
MaxAreas == 3          \* areas of a tsunami entry

\* ------------------------------------------------------ program constants

StaleWindow == 180
EmergencyInterval == 6000
NormalInterval == 30000
EEWPeriod == 6000
EEWPeriodEewOnly == 5000
DetailsPeriodComponent == 6000
RotationPeriod == 10000
RefreshDelay == 100
\* magnitudes are in tenths: 6.0 is 60
EmergencyMagnitude == 60
AlertScale == 30
TestMagnitude == 78
TestScale == 60

\* ------------------------------------------------------------------ data

Widgets == {"full", "eewOnly", "component"}

\* the clock's step: the freshness window, so that an entry is fresh (age 0),
\* exactly on the window's edge, or beyond it
TimeStep == StaleWindow

Null == [type |-> "null"]
NoTime == -1

Times == {k * TimeStep : k \in 0..MaxTicks}

\* the feed's entry 0, as far as the handlers read it,
\* as <<magnitude, maxScale>>: below and at the magnitude the polling
\* effect tests, each below and at the maxScale the alert effect tests
QuakeKinds == {<<59, 20>>, <<59, 30>>, <<60, 20>>, <<60, 30>>}

mkQuake(t, mag, scale) ==
    [type |-> "EARTHQUAKE", time |-> t, magnitude |-> mag, maxScale |-> scale]

mkTsunami(t, c) == [type |-> "TSUNAMI", time |-> t, cancelled |-> c]

mkEEW(t, c, w) == [type |-> "EEW", time |-> t, cancelled |-> c, isWarning |-> w]

Min(a, b) == IF a < b THEN a ELSE b

VARIABLES
    widget,            \* which variant is mounted
    now,               \* Date.now() / 1000
    online,            \* navigator.onLine
    quakeData, tsunamiData, eewData,
    testMode, activeMode, pollingInterval, lastAlertTime,
    pending,           \* effects whose dependencies changed since they last ran
    eewTimers,         \* armed setInterval of the EEW poller (closures)
    detailsTimers,     \* armed setInterval of the details poller
    rotationTimers,    \* armed setInterval of the rotation
    refreshTimeouts,   \* armed setTimeout(handleManualRefresh, 100)
    eewInFlight,       \* EEW fetches issued and not yet answered
    detInFlight,       \* details fetches (quake and tsunami) not yet answered
    sound,             \* the events the last step played the alert sound for
    applied,           \* what the last step's response changed the cells by:
                       \* "cancelled" (a cancelled entry alone), "stale" (an
                       \* EEW entry past the window), else "none"
    lastFiredAt,       \* history: per feed, the occurredAt last announced
    preTest,           \* history: the live cells when test mode was entered
    syncListeners,     \* registered 'system-sync' listeners (closures)
    trIn,              \* the text translateText is called with
    trOut,             \* what the call returned
    feed,              \* entry 0 the details server serves at this moment
    flights,           \* the details responses on their way, in issue order
    newest,            \* history: the response of the fetch issued last
    mounted,           \* the component is mounted
    audioOpen,         \* audio contexts created and not closed
    areasIn,           \* the grades of the areas of a tsunami entry
    gradeOut,          \* the maxGrade computed from them
    detMid,            \* how many fetchDetails calls are suspended at the
                       \* await of the tsunami body, after their quake branch
    loading,           \* the loading cell
    waits              \* the handleManualRefresh calls at their Promise.all,
                       \* each the set of what it still awaits: its EEW
                       \* fetch, its details fetch, the tsunami body

vars == <<widget, now, online, quakeData, tsunamiData, eewData, testMode,
          activeMode, pollingInterval, lastAlertTime, pending, eewTimers,
          detailsTimers, rotationTimers, refreshTimeouts, eewInFlight,
          detInFlight, sound, applied, lastFiredAt, preTest, syncListeners,
          trIn, trOut, feed, flights, newest, mounted, audioOpen,
          areasIn, gradeOut, detMid, loading, waits>>

\* ------------------------------------------------------- feed responses

Fail == [type |-> "fail"]        \* the fetch rejects (transport failure)
Throw == [type |-> "throw"]      \* text() / JSON.parse / a field access throws
NoBody == [type |-> "nobody"]    \* status not ok: the body is not read
Blank == [type |-> "blank"]      \* status ok, the body empty or white space
Empty == [type |-> "empty"]      \* valid JSON that is no non-empty array
Bare == [type |-> "bare"]        \* entry 0 lacks the part the handler needs

rawEEW(t, c, w, e) ==
    [type |-> "EEW", time |-> t, cancelled |-> c, isWarning |-> w,
     earthquake |-> e]

\* The occurredAt of a feed's entry 0: the event already stored for the feed
\* (a repeated notice), or an event of this instant or of one window ago.
EntryTimes(cell) ==
    {u \in Times : u = now \/ u = now - StaleWindow}
    \cup (IF cell = Null THEN {} ELSE {cell.time} \cap Times)

\* entry 0 of the EEW feed: every entry is a Warning (issue.type is only
\* displayed), cancelled or not, with or without its earthquake part
EEWEntries ==
    {rawEEW(t, c, TRUE, TRUE) : t \in EntryTimes(eewData), c \in BOOLEAN}
    \cup {rawEEW(t, FALSE, TRUE, FALSE) : t \in EntryTimes(eewData)}

EEWResponses == {Fail, Throw, NoBody, Blank, Empty} \cup EEWEntries

QuakeEntries ==
    {mkQuake(t, k[1], k[2]) : t \in EntryTimes(quakeData), k \in QuakeKinds}

QuakeResponses == {Fail, Throw, NoBody, Blank, Empty, Bare} \cup QuakeEntries

TsunamiEntries ==
    {mkTsunami(t, c) : t \in EntryTimes(tsunamiData), c \in BOOLEAN}

TsunamiResponses ==
    {Fail, Throw, NoBody, Blank, Empty, Bare} \cup TsunamiEntries

IsEntry(r) == r.type \in {"EEW", "EARTHQUAKE", "TSUNAMI"}

\* ---------------------------------------------------------------- effects

\* (mutant of Dependents: the EEW poller effect also lists pollingInterval)
DependentsShared(cell) ==
    CASE widget = "full" ->
           (CASE cell \in {"quakeData", "tsunamiData"} -> {"polling", "alert"}
              [] cell = "eewData" -> {"polling", "alert", "rotation"}
              [] cell = "testMode" ->
                   {"polling", "eewPoller", "detailsPoller", "alert", "rotation"}
              [] cell = "pollingInterval" -> {"detailsPoller", "eewPoller"}
              [] cell = "lastAlertTime" -> {"alert"}
              [] OTHER -> {})
      [] widget = "component" ->
           (CASE cell = "testMode" -> {"eewPoller", "detailsPoller"}
              [] OTHER -> {})
      [] OTHER ->
           (CASE cell = "testMode" -> {"eewPoller"}
              [] OTHER -> {})

\* useEffect dependency arrays: the effects that list a cell
Dependents(cell) ==
    CASE widget = "full" ->
           (CASE cell \in {"quakeData", "tsunamiData"} -> {"polling", "alert"}
              [] cell = "eewData" -> {"polling", "alert", "rotation"}
              [] cell = "testMode" ->
                   {"polling", "eewPoller", "detailsPoller", "alert", "rotation"}
              [] cell = "pollingInterval" -> {"detailsPoller"}
              [] cell = "lastAlertTime" -> {"alert"}
              [] OTHER -> {})
      [] widget = "component" ->
           (CASE cell = "testMode" -> {"eewPoller", "detailsPoller"}
              [] OTHER -> {})
      [] OTHER ->
           (CASE cell = "testMode" -> {"eewPoller"}
              [] OTHER -> {})

Touch(cells) == UNION {Dependents(c) : c \in cells}

\* (mutant of IsEmergency: the magnitude compared with > instead of >=)
IsEmergencyAbove ==
    \/ eewData # Null
    \/ (quakeData # Null /\ quakeData.magnitude > EmergencyMagnitude)
    \/ (tsunamiData # Null /\ ~tsunamiData.cancelled)

\* the emergency predicate of the dynamic polling effect
IsEmergency ==
    \/ eewData # Null
    \/ (quakeData # Null /\ quakeData.magnitude >= EmergencyMagnitude)
    \/ (tsunamiData # Null /\ ~tsunamiData.cancelled)

PollingTarget == IF IsEmergency THEN EmergencyInterval ELSE NormalInterval

\* the alert effect's three comparisons against lastAlertTime
eewAlert == eewData # Null /\ eewData.time # lastAlertTime

quakeAlert ==
    /\ eewData = Null
    /\ quakeData # Null
    /\ quakeData.maxScale >= AlertScale
    /\ quakeData.time # lastAlertTime

tsunamiAlert ==
    /\ eewData = Null
    /\ tsunamiData # Null
    /\ ~tsunamiData.cancelled
    /\ tsunamiData.time # lastAlertTime

shouldAlert == eewAlert \/ quakeAlert \/ tsunamiAlert

\* eventTime: the tsunami's assignment comes after the quake's
eventTime ==
    IF eewAlert THEN eewData.time
    ELSE IF tsunamiAlert THEN tsunamiData.time
    ELSE IF quakeAlert THEN quakeData.time
    ELSE NoTime

\* (mutant of alertFires: the effect lacks its `if (testMode) return`)
alertFiresInTest == shouldAlert /\ eventTime # NoTime

\* whether a run of the alert effect reaches playAlertSound
alertFires == ~testMode /\ shouldAlert /\ eventTime # NoTime

\* the events one call of playAlertSound announces
AlertEvents ==
    (IF eewAlert THEN {<<"EEW", eewData.time>>} ELSE {})
    \cup (IF quakeAlert THEN {<<"QUAKE", quakeData.time>>} ELSE {})
    \cup (IF tsunamiAlert THEN {<<"TSUNAMI", tsunamiData.time>>} ELSE {})

isEEWActive ==
    IF widget = "full" THEN eewData # Null \/ (testMode /\ activeMode = "EEW")
    ELSE eewData # Null

\* setInterval / clearInterval
Timer(period, tm) == [period |-> period, testMode |-> tm]

\* (mutant of ClearInterval: the effect returns no cleanup)
KeepInterval(timers) == timers

ClearInterval(timers) == << >>

SetInterval(timers, t) ==
    IF Len(timers) < MaxTimers THEN Append(timers, t) ELSE timers

\* setTimeout: one more timeout armed
SetTimeout(timeouts, t) ==
    IF Len(timeouts) < MaxTimeouts THEN Append(timeouts, t) ELSE timeouts

\* fetchEEW / fetchDetails up to the await: the guard on the captured
\* testMode (and, in the full widget, on navigator.onLine)
FetchSkipped(tm) == tm \/ (widget = "full" /\ ~online)

Issue(inFlight, tm) ==
    IF FetchSkipped(tm) THEN inFlight ELSE Min(inFlight + 1, MaxInFlight)

\* ------------------------------------------------------ the fetch results

\* fetchEEW after the await: what setEewData receives (Null for null), or
\* "keep" when no set-state call is reached
\* (mutant of FreshEEW: the age compared with <= instead of <)
FreshEEWInclusive(r) ==
    (now - r.time) <= StaleWindow /\ ~r.cancelled /\ r.earthquake

FreshEEW(r) ==
    (now - r.time) < StaleWindow /\ ~r.cancelled /\ r.earthquake

EEWResult(r) ==
    CASE r.type \in {"fail", "throw", "nobody", "blank"} -> [type |-> "keep"]
      [] r.type = "empty" ->
           IF widget = "full" THEN Null ELSE [type |-> "keep"]
      [] OTHER ->
           IF FreshEEW(r) THEN mkEEW(r.time, r.cancelled, r.isWarning)
           ELSE Null

\* fetchDetails after Promise.all: the quake branch
QuakeResult(q, t) ==
    IF q.type = "fail" \/ t.type = "fail" THEN [type |-> "keep"]
    ELSE IF q.type = "EARTHQUAKE" THEN q
    ELSE [type |-> "keep"]

\* whether the quake branch throws, which skips the tsunami branch: the
\* full widget reads text() and skips a blank body, the component calls
\* json(), which throws on one, and reads the fields of entry 0 unguarded
QuakeThrows(q) ==
    q.type = "throw" \/ (widget = "component" /\ q.type \in {"bare", "blank"})

\* whether fetchDetails reaches the await of the tsunami body
TsunamiAwaited(q, t) ==
    /\ q.type # "fail" /\ t.type # "fail"
    /\ ~QuakeThrows(q)
    /\ t.type # "nobody"

\* the tsunami responses whose body fetchDetails reads
TsunamiBodies == TsunamiResponses \ {Fail, NoBody}

\* the tsunami response as Promise.all hands it over: the fetch rejected,
\* the status not ok, or the status ok and the body still to be read
TsunamiArrivals == {Fail, NoBody, [type |-> "unread"]}

\* fetchDetails after the await of the tsunami body: the tsunami branch
TsunamiResult(t) ==
    IF t.type = "TSUNAMI" THEN t
    ELSE IF t.type = "bare" /\ widget = "full" THEN Null
    ELSE [type |-> "keep"]

\* the handleManualRefresh calls whose Promise.all the fetch that settles may
\* belong to: every call that awaits one when it is the only one in flight,
\* and one such call or none when there are more
Owners(part, inFlight) ==
    LET holders == {c \in waits : part \in c}
    IN  IF inFlight = 1 THEN {holders}
        ELSE {{c} : c \in holders} \cup {{}}

\* what a call still awaits once its fetch has settled, or gone on to next
Rest(c, part, next) == (c \ {part}) \cup next

\* the calls still at their Promise.all after that
Awaiting(owners, part, next) ==
    (waits \ owners) \cup ({Rest(c, part, next) : c \in owners} \ {{}})

\* handleManualRefresh after its Promise.all: each call awaits its own two
\* fetches only, and calls setLoading(false) when the last of them settles,
\* whatever another call still awaits
LoadingAfter(owners, part, next) ==
    IF \E c \in owners : Rest(c, part, next) = {} THEN FALSE ELSE loading

\* a set-state call: the cell changes unless null is set over null
Changes(old, res) == res.type # "keep" /\ ~(res = Null /\ old = Null)

SetCell(old, res) == IF res.type = "keep" THEN old ELSE res

\* --------------------------------------------------------------- actions

Quiet == pending = {}

\* one render's effect pass of the full widget
RunEffectsFull ==
    /\ widget = "full"
    /\ pending # {}
    /\ LET fire == "alert" \in pending /\ alertFires
           newInterval ==
               IF "polling" \in pending /\ ~testMode THEN PollingTarget
               ELSE pollingInterval
           newLast == IF fire THEN eventTime ELSE lastAlertTime
           forceEEW == eewData # Null \/ (testMode /\ activeMode = "EEW")
           pollerFetch == "detailsPoller" \in pending /\ ~testMode
           afterPoller ==
               IF pollerFetch THEN Issue(detInFlight, testMode) ELSE detInFlight
       IN  /\ pollingInterval' = newInterval
           /\ eewTimers' =
                IF "eewPoller" \in pending
                THEN (IF testMode THEN ClearInterval(eewTimers)
                      ELSE SetInterval(ClearInterval(eewTimers),
                                       Timer(EEWPeriod, testMode)))
                ELSE eewTimers
           /\ eewInFlight' =
                IF "eewPoller" \in pending /\ ~testMode
                THEN Issue(eewInFlight, testMode) ELSE eewInFlight
           /\ detailsTimers' =
                IF "detailsPoller" \in pending
                THEN (IF testMode THEN ClearInterval(detailsTimers)
                      ELSE SetInterval(ClearInterval(detailsTimers),
                                       Timer(pollingInterval, testMode)))
                ELSE detailsTimers
           /\ detInFlight' =
                IF fire THEN Issue(afterPoller, testMode) ELSE afterPoller
           /\ sound' = IF fire THEN AlertEvents ELSE {}
           /\ lastAlertTime' = newLast
           /\ activeMode' =
                IF "rotation" \in pending /\ forceEEW THEN "EEW" ELSE activeMode
           /\ rotationTimers' =
                IF "rotation" \in pending
                THEN (IF forceEEW \/ testMode THEN ClearInterval(rotationTimers)
                      ELSE SetInterval(ClearInterval(rotationTimers),
                                       Timer(RotationPeriod, testMode)))
                ELSE rotationTimers
           /\ pending' =
                (IF newInterval # pollingInterval
                 THEN Dependents("pollingInterval") ELSE {})
                \cup (IF newLast # lastAlertTime
                      THEN Dependents("lastAlertTime") ELSE {})
    /\ applied' = "none"
    /\ UNCHANGED <<widget, now, online, quakeData, tsunamiData, eewData,
                   testMode, refreshTimeouts, syncListeners,
                   detMid, loading, waits>>

\* a tick of the EEW poller's interval: fetchEEW(true) of the arming render
EEWTick ==
    /\ Quiet
    /\ \E i \in 1..Len(eewTimers) :
          eewInFlight' = Issue(eewInFlight, eewTimers[i].testMode)
    /\ sound' = {} /\ applied' = "none"
    /\ UNCHANGED <<widget, now, online, quakeData, tsunamiData, eewData,
                   testMode, activeMode, pollingInterval, lastAlertTime,
                   pending, eewTimers, detailsTimers, rotationTimers,
                   refreshTimeouts, detInFlight, syncListeners,
                   detMid, loading, waits>>

\* a tick of the details poller's interval: fetchDetails(true)
DetailsTick ==
    /\ Quiet
    /\ \E i \in 1..Len(detailsTimers) :
          detInFlight' = Issue(detInFlight, detailsTimers[i].testMode)
    /\ sound' = {} /\ applied' = "none"
    /\ UNCHANGED <<widget, now, online, quakeData, tsunamiData, eewData,
                   testMode, activeMode, pollingInterval, lastAlertTime,
                   pending, eewTimers, detailsTimers, rotationTimers,
                   refreshTimeouts, eewInFlight, syncListeners,
                   detMid, loading, waits>>

\* (mutant of Rotated: a display on EEW is left where it is)
RotatedFromTabs(prev) ==
    IF prev = "EARTHQUAKE" THEN "TSUNAMI"
    ELSE IF prev = "TSUNAMI" THEN "EARTHQUAKE"
    ELSE prev

\* the updater the rotation interval passes to setActiveMode
Rotated(prev) ==
    IF prev = "EARTHQUAKE" THEN "TSUNAMI"
    ELSE IF prev = "TSUNAMI" THEN "EARTHQUAKE"
    ELSE "EARTHQUAKE"

\* a tick of the rotation interval
RotationTick ==
    /\ Quiet
    /\ Len(rotationTimers) > 0
    /\ activeMode' = Rotated(activeMode)
    /\ sound' = {} /\ applied' = "none"
    /\ UNCHANGED <<widget, now, online, quakeData, tsunamiData, eewData,
                   testMode, pollingInterval, lastAlertTime, pending,
                   eewTimers, detailsTimers, rotationTimers, refreshTimeouts,
                   eewInFlight, detInFlight, syncListeners,
                   detMid, loading, waits>>

\* the rotation interval fires between a commit and the pass of its effects:
\* the callback needs no render, and activeMode is no dependency of an effect
RotationTickEarly ==
    /\ ~Quiet
    /\ Len(rotationTimers) > 0
    /\ activeMode' = Rotated(activeMode)
    /\ sound' = {} /\ applied' = "none"
    /\ UNCHANGED <<widget, now, online, quakeData, tsunamiData, eewData,
                   testMode, pollingInterval, lastAlertTime, pending,
                   eewTimers, detailsTimers, rotationTimers, refreshTimeouts,
                   eewInFlight, detInFlight, syncListeners,
                   detMid, loading, waits>>

\* the rest of fetchEEW, the response being r
ApplyEEW(r) ==
    LET res == EEWResult(r) IN
    /\ eewData' = SetCell(eewData, res)
    /\ pending' = IF Changes(eewData, res) THEN Touch({"eewData"}) ELSE {}
    /\ applied' = IF ~IsEntry(r) \/ ~Changes(eewData, res) THEN "none"
                  ELSE IF r.cancelled THEN "cancelled"
                  ELSE IF r.earthquake /\ now - r.time >= StaleWindow
                  THEN "stale"
                  ELSE "none"
    /\ eewInFlight' = eewInFlight - 1
    /\ \E owners \in Owners("eew", eewInFlight) :
          /\ waits' = Awaiting(owners, "eew", {})
          /\ loading' = LoadingAfter(owners, "eew", {})
    /\ sound' = {}
    /\ UNCHANGED <<widget, now, online, quakeData, tsunamiData, testMode,
                   activeMode, pollingInterval, lastAlertTime, eewTimers,
                   detailsTimers, rotationTimers, refreshTimeouts,
                   detInFlight, syncListeners, detMid>>

\* the response of an EEW fetch arrives
DeliverEEW ==
    /\ Quiet
    /\ eewInFlight > 0
    /\ \E r \in EEWResponses : ApplyEEW(r)

\* fetchDetails from Promise.all to the await of the tsunami body: the quake
\* branch, the two responses being q and t
StoreQuake(q, t) ==
    LET qres == QuakeResult(q, t)
    IN  /\ quakeData' = SetCell(quakeData, qres)
        /\ pending' =
             Touch(IF Changes(quakeData, qres) THEN {"quakeData"} ELSE {})
        /\ sound' = {} /\ applied' = "none"
        /\ UNCHANGED <<widget, now, online, tsunamiData, eewData, testMode,
                       activeMode, pollingInterval, lastAlertTime, eewTimers,
                       detailsTimers, rotationTimers, refreshTimeouts,
                       eewInFlight, syncListeners>>

\* the continuation of one of the fetches counted in detInFlight, up to the
\* await of the tsunami body or, when that is not reached, to its end
ApplyDetails(q, t) ==
    /\ StoreQuake(q, t)
    /\ detInFlight' = detInFlight - 1
    /\ detMid' = IF TsunamiAwaited(q, t) THEN detMid + 1 ELSE detMid
    /\ LET next == IF TsunamiAwaited(q, t) THEN {"body"} ELSE {}
       IN  \E owners \in Owners("details", detInFlight) :
              /\ waits' = Awaiting(owners, "details", next)
              /\ loading' = LoadingAfter(owners, "details", next)

\* both responses of a details fetch arrive
DeliverDetails ==
    /\ Quiet
    /\ detInFlight > 0
    /\ detMid < MaxInFlight
    /\ widget # "eewOnly"
    /\ \E q \in QuakeResponses, t \in TsunamiArrivals : ApplyDetails(q, t)

\* fetchDetails after the await of the tsunami body, the body being that of
\* t: the tsunami branch. The render that follows setQuakeData may or may not
\* have run its effects.
StoreTsunami(t) ==
    LET tres == TsunamiResult(t)
    IN  /\ tsunamiData' = SetCell(tsunamiData, tres)
        /\ pending' =
             pending
             \cup Touch(IF Changes(tsunamiData, tres)
                        THEN {"tsunamiData"} ELSE {})
        /\ applied' = IF /\ Quiet
                         /\ Changes(tsunamiData, tres)
                         /\ tres # Null /\ tres.cancelled
                      THEN "cancelled" ELSE "none"
        /\ sound' = {}
        /\ UNCHANGED <<widget, now, online, quakeData, eewData, testMode,
                       activeMode, pollingInterval, lastAlertTime, eewTimers,
                       detailsTimers, rotationTimers, refreshTimeouts,
                       eewInFlight, detInFlight, syncListeners>>

\* a suspended fetchDetails resumes with the body of t
ResumeWith(t) ==
    /\ detMid > 0
    /\ StoreTsunami(t)
    /\ detMid' = detMid - 1
    /\ \E owners \in Owners("body", detMid) :
          /\ waits' = Awaiting(owners, "body", {})
          /\ loading' = LoadingAfter(owners, "body", {})

\* the tsunami body of a suspended fetchDetails has been read
ResumeDetails == \E t \in TsunamiBodies : ResumeWith(t)

\* one render's effect pass of the component widget
RunEffectsComponent ==
    /\ widget = "component"
    /\ pending # {}
    /\ eewTimers' =
         IF "eewPoller" \in pending
         THEN (IF testMode THEN ClearInterval(eewTimers)
               ELSE SetInterval(ClearInterval(eewTimers),
                                Timer(EEWPeriod, testMode)))
         ELSE eewTimers
    /\ eewInFlight' =
         IF "eewPoller" \in pending /\ ~testMode
         THEN Issue(eewInFlight, testMode) ELSE eewInFlight
    /\ detailsTimers' =
         IF "detailsPoller" \in pending
         THEN (IF testMode THEN ClearInterval(detailsTimers)
               ELSE SetInterval(ClearInterval(detailsTimers),
                                Timer(pollingInterval, testMode)))
         ELSE detailsTimers
    /\ detInFlight' =
         IF "detailsPoller" \in pending /\ ~testMode
         THEN Issue(detInFlight, testMode) ELSE detInFlight
    /\ syncListeners' =
         IF "systemSync" \in pending
         THEN SetInterval(syncListeners, Timer(0, testMode))
         ELSE syncListeners
    /\ pending' = {}
    /\ sound' = {} /\ applied' = "none"
    /\ UNCHANGED <<widget, now, online, quakeData, tsunamiData, eewData,
                   testMode, activeMode, pollingInterval, lastAlertTime,
                   rotationTimers, refreshTimeouts, detMid, loading, waits>>

\* one render's effect pass of the EEW-only widget: the interval and the
\* listener are armed in test mode too, with the fetchEEW of that render
RunEffectsEewOnly ==
    /\ widget = "eewOnly"
    /\ pending # {}
    /\ eewTimers' = SetInterval(ClearInterval(eewTimers),
                                Timer(EEWPeriodEewOnly, testMode))
    /\ syncListeners' = SetInterval(ClearInterval(syncListeners),
                                    Timer(0, testMode))
    /\ eewInFlight' = Issue(eewInFlight, testMode)
    /\ pending' = {}
    /\ sound' = {} /\ applied' = "none"
    /\ UNCHANGED <<widget, now, online, quakeData, tsunamiData, eewData,
                   testMode, activeMode, pollingInterval, lastAlertTime,
                   detailsTimers, rotationTimers, refreshTimeouts, detMid,
                   loading, waits,
                   detInFlight>>

\* handleManualRefresh of a render whose testMode was tm: setLoading(true),
\* the two fetches, and setLoading(false) once both have settled, which is
\* at once when their guards return
ManualRefreshWith(tm) ==
    /\ eewInFlight' = Issue(eewInFlight, tm)
    /\ detInFlight' = Issue(detInFlight, tm)
    /\ waits' = IF FetchSkipped(tm) THEN waits
                 ELSE waits \cup {{"eew", "details"}}
    /\ loading' = ~FetchSkipped(tm)
    /\ UNCHANGED detMid

\* a click on the refresh button (full widget), disabled while loading
handleManualRefresh ==
    /\ Quiet
    /\ widget = "full"
    /\ ~loading
    /\ ManualRefreshWith(testMode)
    /\ sound' = {} /\ applied' = "none"
    /\ UNCHANGED <<widget, now, online, quakeData, tsunamiData, eewData,
                   testMode, activeMode, pollingInterval, lastAlertTime,
                   pending, eewTimers, detailsTimers, rotationTimers,
                   refreshTimeouts, syncListeners>>

\* the timeout armed by leaving test mode fires
RefreshTimeout ==
    /\ Quiet
    /\ Len(refreshTimeouts) > 0
    /\ ManualRefreshWith(Head(refreshTimeouts).testMode)
    /\ refreshTimeouts' = Tail(refreshTimeouts)
    /\ sound' = {} /\ applied' = "none"
    /\ UNCHANGED <<widget, now, online, quakeData, tsunamiData, eewData,
                   testMode, activeMode, pollingInterval, lastAlertTime,
                   pending, eewTimers, detailsTimers, rotationTimers,
                   syncListeners>>

\* the dashboard dispatches 'system-sync'
SystemSync ==
    /\ Quiet
    /\ Len(syncListeners) > 0
    /\ IF widget = "component"
       THEN ManualRefreshWith(syncListeners[1].testMode)
       ELSE /\ eewInFlight' = Issue(eewInFlight, syncListeners[1].testMode)
            /\ UNCHANGED <<detInFlight, detMid, loading, waits>>
    /\ sound' = {} /\ applied' = "none"
    /\ UNCHANGED <<widget, now, online, quakeData, tsunamiData, eewData,
                   testMode, activeMode, pollingInterval, lastAlertTime,
                   pending, eewTimers, detailsTimers, rotationTimers,
                   refreshTimeouts, syncListeners>>

\* a click on the SEISMIC or TSUNAMI tab, rendered while no EEW is active
SelectTab ==
    /\ Quiet
    /\ widget # "eewOnly"
    /\ ~isEEWActive
    /\ \E m \in {"EARTHQUAKE", "TSUNAMI"} : activeMode' = m
    /\ sound' = {} /\ applied' = "none"
    /\ UNCHANGED <<widget, now, online, quakeData, tsunamiData, eewData,
                   testMode, pollingInterval, lastAlertTime, pending,
                   eewTimers, detailsTimers, rotationTimers, refreshTimeouts,
                   eewInFlight, detInFlight, syncListeners,
                   detMid, loading, waits>>

\* toggleTestMode with testMode false
EnterTest ==
    /\ Quiet
    /\ ~testMode
    /\ testMode' = TRUE
    /\ eewData' = mkEEW(now, FALSE, TRUE)
    /\ activeMode' = IF widget = "eewOnly" THEN activeMode ELSE "EEW"
    /\ quakeData' = IF widget = "full"
                    THEN mkQuake(now, TestMagnitude, TestScale) ELSE quakeData
    /\ sound' = IF widget = "full" THEN {<<"TEST", now>>} ELSE {}
    /\ pending' = Touch({"testMode", "eewData", "quakeData", "activeMode"})
    /\ applied' = "none"
    /\ UNCHANGED <<widget, now, online, tsunamiData, pollingInterval,
                   lastAlertTime, eewTimers, detailsTimers, rotationTimers,
                   refreshTimeouts, eewInFlight, detInFlight, syncListeners,
                   detMid, loading, waits>>

\* toggleTestMode with testMode true
ExitTest ==
    /\ Quiet
    /\ testMode
    /\ testMode' = FALSE
    /\ eewData' = Null
    /\ IF widget = "full"
       THEN /\ quakeData' = Null
            /\ tsunamiData' = Null
            /\ lastAlertTime' = NoTime
            /\ refreshTimeouts' =
                 SetTimeout(refreshTimeouts, Timer(RefreshDelay, testMode))
            /\ UNCHANGED <<eewInFlight, detInFlight, detMid, loading, waits>>
       ELSE /\ UNCHANGED <<quakeData, tsunamiData, lastAlertTime,
                           refreshTimeouts>>
            /\ IF widget = "component" THEN ManualRefreshWith(testMode)
               ELSE /\ eewInFlight' = Issue(eewInFlight, testMode)
                    /\ UNCHANGED <<detInFlight, detMid, loading, waits>>
    /\ pending' = Touch({"testMode", "eewData", "quakeData", "tsunamiData",
                         "lastAlertTime"})
    /\ sound' = {} /\ applied' = "none"
    /\ UNCHANGED <<widget, now, online, activeMode, pollingInterval,
                   eewTimers, detailsTimers, rotationTimers, syncListeners>>

\* the clock advances
AdvanceTime ==
    /\ Quiet
    /\ now < MaxTicks * TimeStep
    /\ refreshTimeouts = << >>     \* a 100 ms timeout fires within the step
    /\ detMid = 0                 \* and a body that arrived is read within it
    /\ now' = now + TimeStep
    /\ sound' = {} /\ applied' = "none"
    /\ UNCHANGED <<widget, online, quakeData, tsunamiData, eewData, testMode,
                   activeMode, pollingInterval, lastAlertTime, pending,
                   eewTimers, detailsTimers, rotationTimers, refreshTimeouts,
                   eewInFlight, detInFlight, syncListeners,
                   detMid, loading, waits>>

\* the browser goes offline or comes back (only the full widget reads it)
NetworkChange ==
    /\ Quiet
    /\ widget = "full"
    /\ online' = ~online
    /\ sound' = {} /\ applied' = "none"
    /\ UNCHANGED <<widget, now, quakeData, tsunamiData, eewData, testMode,
                   activeMode, pollingInterval, lastAlertTime, pending,
                   eewTimers, detailsTimers, rotationTimers, refreshTimeouts,
                   eewInFlight, detInFlight, syncListeners,
                   detMid, loading, waits>>

\* ------------------------------------------------------------ translateText

\* a text is a sequence of characters
Untranslated == <<"untranslated">>     \* translateText has not been called

Lower == <<"a", "b", "c", "d", "e", "f", "g", "h", "i", "j", "k", "l", "m",
           "n", "o", "p", "q", "r", "s", "t", "u", "v", "w", "x", "y", "z">>
Upper == <<"A", "B", "C", "D", "E", "F", "G", "H", "I", "J", "K", "L", "M",
           "N", "O", "P", "Q", "R", "S", "T", "U", "V", "W", "X", "Y", "Z">>

\* the uppercase mapping of the characters outside a-z that have one, as
\* <<character, its uppercase>>; the uppercase of some is several characters
UpperCaseMapping == {
    <<"u00b5", <<"u039c">>>>, <<"u00df", <<"S", "S">>>>,
    <<"u00e0", <<"u00c0">>>>, <<"u00e1", <<"u00c1">>>>,
    <<"u00e2", <<"u00c2">>>>, <<"u00e3", <<"u00c3">>>>,
    <<"u00e4", <<"u00c4">>>>, <<"u00e5", <<"u00c5">>>>,
    <<"u00e6", <<"u00c6">>>>, <<"u00e7", <<"u00c7">>>>,
    <<"u00e8", <<"u00c8">>>>, <<"u00e9", <<"u00c9">>>>,
    <<"u00ea", <<"u00ca">>>>, <<"u00eb", <<"u00cb">>>>,
    <<"u00ec", <<"u00cc">>>>, <<"u00ed", <<"u00cd">>>>,
    <<"u00ee", <<"u00ce">>>>, <<"u00ef", <<"u00cf">>>>,
    <<"u00f0", <<"u00d0">>>>, <<"u00f1", <<"u00d1">>>>,
    <<"u00f2", <<"u00d2">>>>, <<"u00f3", <<"u00d3">>>>,
    <<"u00f4", <<"u00d4">>>>, <<"u00f5", <<"u00d5">>>>,
    <<"u00f6", <<"u00d6">>>>, <<"u00f8", <<"u00d8">>>>,
    <<"u00f9", <<"u00d9">>>>, <<"u00fa", <<"u00da">>>>,
    <<"u00fb", <<"u00db">>>>, <<"u00fc", <<"u00dc">>>>,
    <<"u00fd", <<"u00dd">>>>, <<"u00fe", <<"u00de">>>>,
    <<"u00ff", <<"u0178">>>>, <<"u0101", <<"u0100">>>>,
    <<"u0103", <<"u0102">>>>, <<"u0105", <<"u0104">>>>,
    <<"u0107", <<"u0106">>>>, <<"u0109", <<"u0108">>>>,
    <<"u010b", <<"u010a">>>>, <<"u010d", <<"u010c">>>>,
    <<"u010f", <<"u010e">>>>, <<"u0111", <<"u0110">>>>,
    <<"u0113", <<"u0112">>>>, <<"u0115", <<"u0114">>>>,
    <<"u0117", <<"u0116">>>>, <<"u0119", <<"u0118">>>>,
    <<"u011b", <<"u011a">>>>, <<"u011d", <<"u011c">>>>,
    <<"u011f", <<"u011e">>>>, <<"u0121", <<"u0120">>>>,
    <<"u0123", <<"u0122">>>>, <<"u0125", <<"u0124">>>>,
    <<"u0127", <<"u0126">>>>, <<"u0129", <<"u0128">>>>,
    <<"u012b", <<"u012a">>>>, <<"u012d", <<"u012c">>>>,
    <<"u012f", <<"u012e">>>>, <<"u0131", <<"I">>>>, <<"u0133", <<"u0132">>>>,
    <<"u0135", <<"u0134">>>>, <<"u0137", <<"u0136">>>>,
    <<"u013a", <<"u0139">>>>, <<"u013c", <<"u013b">>>>,
    <<"u013e", <<"u013d">>>>, <<"u0140", <<"u013f">>>>,
    <<"u0142", <<"u0141">>>>, <<"u0144", <<"u0143">>>>,
    <<"u0146", <<"u0145">>>>, <<"u0148", <<"u0147">>>>,
    <<"u0149", <<"u02bc", "N">>>>, <<"u014b", <<"u014a">>>>,
    <<"u014d", <<"u014c">>>>, <<"u014f", <<"u014e">>>>,
    <<"u0151", <<"u0150">>>>, <<"u0153", <<"u0152">>>>,
    <<"u0155", <<"u0154">>>>, <<"u0157", <<"u0156">>>>,
    <<"u0159", <<"u0158">>>>, <<"u015b", <<"u015a">>>>,
    <<"u015d", <<"u015c">>>>, <<"u015f", <<"u015e">>>>,
    <<"u0161", <<"u0160">>>>, <<"u0163", <<"u0162">>>>,
    <<"u0165", <<"u0164">>>>, <<"u0167", <<"u0166">>>>,
    <<"u0169", <<"u0168">>>>, <<"u016b", <<"u016a">>>>,
    <<"u016d", <<"u016c">>>>, <<"u016f", <<"u016e">>>>,
    <<"u0171", <<"u0170">>>>, <<"u0173", <<"u0172">>>>,
    <<"u0175", <<"u0174">>>>, <<"u0177", <<"u0176">>>>,
    <<"u017a", <<"u0179">>>>, <<"u017c", <<"u017b">>>>,
    <<"u017e", <<"u017d">>>>, <<"u017f", <<"S">>>>, <<"u0180", <<"u0243">>>>,
    <<"u0183", <<"u0182">>>>, <<"u0185", <<"u0184">>>>,
    <<"u0188", <<"u0187">>>>, <<"u018c", <<"u018b">>>>,
    <<"u0192", <<"u0191">>>>, <<"u0195", <<"u01f6">>>>,
    <<"u0199", <<"u0198">>>>, <<"u019a", <<"u023d">>>>,
    <<"u019e", <<"u0220">>>>, <<"u01a1", <<"u01a0">>>>,
    <<"u01a3", <<"u01a2">>>>, <<"u01a5", <<"u01a4">>>>,
    <<"u01a8", <<"u01a7">>>>, <<"u01ad", <<"u01ac">>>>,
    <<"u01b0", <<"u01af">>>>, <<"u01b4", <<"u01b3">>>>,
    <<"u01b6", <<"u01b5">>>>, <<"u01b9", <<"u01b8">>>>,
    <<"u01bd", <<"u01bc">>>>, <<"u01bf", <<"u01f7">>>>,
    <<"u01c5", <<"u01c4">>>>, <<"u01c6", <<"u01c4">>>>,
    <<"u01c8", <<"u01c7">>>>, <<"u01c9", <<"u01c7">>>>,
    <<"u01cb", <<"u01ca">>>>, <<"u01cc", <<"u01ca">>>>,
    <<"u01ce", <<"u01cd">>>>, <<"u01d0", <<"u01cf">>>>,
    <<"u01d2", <<"u01d1">>>>, <<"u01d4", <<"u01d3">>>>,
    <<"u01d6", <<"u01d5">>>>, <<"u01d8", <<"u01d7">>>>,
    <<"u01da", <<"u01d9">>>>, <<"u01dc", <<"u01db">>>>,
    <<"u01dd", <<"u018e">>>>, <<"u01df", <<"u01de">>>>,
    <<"u01e1", <<"u01e0">>>>, <<"u01e3", <<"u01e2">>>>,
    <<"u01e5", <<"u01e4">>>>, <<"u01e7", <<"u01e6">>>>,
    <<"u01e9", <<"u01e8">>>>, <<"u01eb", <<"u01ea">>>>,
    <<"u01ed", <<"u01ec">>>>, <<"u01ef", <<"u01ee">>>>,
    <<"u01f0", <<"J", "u030c">>>>, <<"u01f2", <<"u01f1">>>>,
    <<"u01f3", <<"u01f1">>>>, <<"u01f5", <<"u01f4">>>>,
    <<"u01f9", <<"u01f8">>>>, <<"u01fb", <<"u01fa">>>>,
    <<"u01fd", <<"u01fc">>>>, <<"u01ff", <<"u01fe">>>>,
    <<"u0201", <<"u0200">>>>, <<"u0203", <<"u0202">>>>,
    <<"u0205", <<"u0204">>>>, <<"u0207", <<"u0206">>>>,
    <<"u0209", <<"u0208">>>>, <<"u020b", <<"u020a">>>>,
    <<"u020d", <<"u020c">>>>, <<"u020f", <<"u020e">>>>,
    <<"u0211", <<"u0210">>>>, <<"u0213", <<"u0212">>>>,
    <<"u0215", <<"u0214">>>>, <<"u0217", <<"u0216">>>>,
    <<"u0219", <<"u0218">>>>, <<"u021b", <<"u021a">>>>,
    <<"u021d", <<"u021c">>>>, <<"u021f", <<"u021e">>>>,
    <<"u0223", <<"u0222">>>>, <<"u0225", <<"u0224">>>>,
    <<"u0227", <<"u0226">>>>, <<"u0229", <<"u0228">>>>,
    <<"u022b", <<"u022a">>>>, <<"u022d", <<"u022c">>>>,
    <<"u022f", <<"u022e">>>>, <<"u0231", <<"u0230">>>>,
    <<"u0233", <<"u0232">>>>, <<"u023c", <<"u023b">>>>,
    <<"u023f", <<"u2c7e">>>>, <<"u0240", <<"u2c7f">>>>,
    <<"u0242", <<"u0241">>>>, <<"u0247", <<"u0246">>>>,
    <<"u0249", <<"u0248">>>>, <<"u024b", <<"u024a">>>>,
    <<"u024d", <<"u024c">>>>, <<"u024f", <<"u024e">>>>,
    <<"u0250", <<"u2c6f">>>>, <<"u0251", <<"u2c6d">>>>,
    <<"u0252", <<"u2c70">>>>, <<"u0253", <<"u0181">>>>,
    <<"u0254", <<"u0186">>>>, <<"u0256", <<"u0189">>>>,
    <<"u0257", <<"u018a">>>>, <<"u0259", <<"u018f">>>>,
    <<"u025b", <<"u0190">>>>, <<"u025c", <<"ua7ab">>>>,
    <<"u0260", <<"u0193">>>>, <<"u0261", <<"ua7ac">>>>,
    <<"u0263", <<"u0194">>>>, <<"u0265", <<"ua78d">>>>,
    <<"u0266", <<"ua7aa">>>>, <<"u0268", <<"u0197">>>>,
    <<"u0269", <<"u0196">>>>, <<"u026a", <<"ua7ae">>>>,
    <<"u026b", <<"u2c62">>>>, <<"u026c", <<"ua7ad">>>>,
    <<"u026f", <<"u019c">>>>, <<"u0271", <<"u2c6e">>>>,
    <<"u0272", <<"u019d">>>>, <<"u0275", <<"u019f">>>>,
    <<"u027d", <<"u2c64">>>>, <<"u0280", <<"u01a6">>>>,
    <<"u0282", <<"ua7c5">>>>, <<"u0283", <<"u01a9">>>>,
    <<"u0287", <<"ua7b1">>>>, <<"u0288", <<"u01ae">>>>,
    <<"u0289", <<"u0244">>>>, <<"u028a", <<"u01b1">>>>,
    <<"u028b", <<"u01b2">>>>, <<"u028c", <<"u0245">>>>,
    <<"u0292", <<"u01b7">>>>, <<"u029d", <<"ua7b2">>>>,
    <<"u029e", <<"ua7b0">>>>, <<"u0345", <<"u0399">>>>,
    <<"u0371", <<"u0370">>>>, <<"u0373", <<"u0372">>>>,
    <<"u0377", <<"u0376">>>>, <<"u037b", <<"u03fd">>>>,
    <<"u037c", <<"u03fe">>>>, <<"u037d", <<"u03ff">>>>,
    <<"u0390", <<"u0399", "u0308", "u0301">>>>, <<"u03ac", <<"u0386">>>>,
    <<"u03ad", <<"u0388">>>>, <<"u03ae", <<"u0389">>>>,
    <<"u03af", <<"u038a">>>>, <<"u03b0", <<"u03a5", "u0308", "u0301">>>>,
    <<"u03b1", <<"u0391">>>>, <<"u03b2", <<"u0392">>>>,
    <<"u03b3", <<"u0393">>>>, <<"u03b4", <<"u0394">>>>,
    <<"u03b5", <<"u0395">>>>, <<"u03b6", <<"u0396">>>>,
    <<"u03b7", <<"u0397">>>>, <<"u03b8", <<"u0398">>>>,
    <<"u03b9", <<"u0399">>>>, <<"u03ba", <<"u039a">>>>,
    <<"u03bb", <<"u039b">>>>, <<"u03bc", <<"u039c">>>>,
    <<"u03bd", <<"u039d">>>>, <<"u03be", <<"u039e">>>>,
    <<"u03bf", <<"u039f">>>>, <<"u03c0", <<"u03a0">>>>,
    <<"u03c1", <<"u03a1">>>>, <<"u03c2", <<"u03a3">>>>,
    <<"u03c3", <<"u03a3">>>>, <<"u03c4", <<"u03a4">>>>,
    <<"u03c5", <<"u03a5">>>>, <<"u03c6", <<"u03a6">>>>,
    <<"u03c7", <<"u03a7">>>>, <<"u03c8", <<"u03a8">>>>,
    <<"u03c9", <<"u03a9">>>>, <<"u03ca", <<"u03aa">>>>,
    <<"u03cb", <<"u03ab">>>>, <<"u03cc", <<"u038c">>>>,
    <<"u03cd", <<"u038e">>>>, <<"u03ce", <<"u038f">>>>,
    <<"u03d0", <<"u0392">>>>, <<"u03d1", <<"u0398">>>>,
    <<"u03d5", <<"u03a6">>>>, <<"u03d6", <<"u03a0">>>>,
    <<"u03d7", <<"u03cf">>>>, <<"u03d9", <<"u03d8">>>>,
    <<"u03db", <<"u03da">>>>, <<"u03dd", <<"u03dc">>>>,
    <<"u03df", <<"u03de">>>>, <<"u03e1", <<"u03e0">>>>,
    <<"u03e3", <<"u03e2">>>>, <<"u03e5", <<"u03e4">>>>,
    <<"u03e7", <<"u03e6">>>>, <<"u03e9", <<"u03e8">>>>,
    <<"u03eb", <<"u03ea">>>>, <<"u03ed", <<"u03ec">>>>,
    <<"u03ef", <<"u03ee">>>>, <<"u03f0", <<"u039a">>>>,
    <<"u03f1", <<"u03a1">>>>, <<"u03f2", <<"u03f9">>>>,
    <<"u03f3", <<"u037f">>>>, <<"u03f5", <<"u0395">>>>,
    <<"u03f8", <<"u03f7">>>>, <<"u03fb", <<"u03fa">>>>,
    <<"u0430", <<"u0410">>>>, <<"u0431", <<"u0411">>>>,
    <<"u0432", <<"u0412">>>>, <<"u0433", <<"u0413">>>>,
    <<"u0434", <<"u0414">>>>, <<"u0435", <<"u0415">>>>,
    <<"u0436", <<"u0416">>>>, <<"u0437", <<"u0417">>>>,
    <<"u0438", <<"u0418">>>>, <<"u0439", <<"u0419">>>>,
    <<"u043a", <<"u041a">>>>, <<"u043b", <<"u041b">>>>,
    <<"u043c", <<"u041c">>>>, <<"u043d", <<"u041d">>>>,
    <<"u043e", <<"u041e">>>>, <<"u043f", <<"u041f">>>>,
    <<"u0440", <<"u0420">>>>, <<"u0441", <<"u0421">>>>,
    <<"u0442", <<"u0422">>>>, <<"u0443", <<"u0423">>>>,
    <<"u0444", <<"u0424">>>>, <<"u0445", <<"u0425">>>>,
    <<"u0446", <<"u0426">>>>, <<"u0447", <<"u0427">>>>,
    <<"u0448", <<"u0428">>>>, <<"u0449", <<"u0429">>>>,
    <<"u044a", <<"u042a">>>>, <<"u044b", <<"u042b">>>>,
    <<"u044c", <<"u042c">>>>, <<"u044d", <<"u042d">>>>,
    <<"u044e", <<"u042e">>>>, <<"u044f", <<"u042f">>>>,
    <<"u0450", <<"u0400">>>>, <<"u0451", <<"u0401">>>>,
    <<"u0452", <<"u0402">>>>, <<"u0453", <<"u0403">>>>,
    <<"u0454", <<"u0404">>>>, <<"u0455", <<"u0405">>>>,
    <<"u0456", <<"u0406">>>>, <<"u0457", <<"u0407">>>>,
    <<"u0458", <<"u0408">>>>, <<"u0459", <<"u0409">>>>,
    <<"u045a", <<"u040a">>>>, <<"u045b", <<"u040b">>>>,
    <<"u045c", <<"u040c">>>>, <<"u045d", <<"u040d">>>>,
    <<"u045e", <<"u040e">>>>, <<"u045f", <<"u040f">>>>,
    <<"u0461", <<"u0460">>>>, <<"u0463", <<"u0462">>>>,
    <<"u0465", <<"u0464">>>>, <<"u0467", <<"u0466">>>>,
    <<"u0469", <<"u0468">>>>, <<"u046b", <<"u046a">>>>,
    <<"u046d", <<"u046c">>>>, <<"u046f", <<"u046e">>>>,
    <<"u0471", <<"u0470">>>>, <<"u0473", <<"u0472">>>>,
    <<"u0475", <<"u0474">>>>, <<"u0477", <<"u0476">>>>,
    <<"u0479", <<"u0478">>>>, <<"u047b", <<"u047a">>>>,
    <<"u047d", <<"u047c">>>>, <<"u047f", <<"u047e">>>>,
    <<"u0481", <<"u0480">>>>, <<"u048b", <<"u048a">>>>,
    <<"u048d", <<"u048c">>>>, <<"u048f", <<"u048e">>>>,
    <<"u0491", <<"u0490">>>>, <<"u0493", <<"u0492">>>>,
    <<"u0495", <<"u0494">>>>, <<"u0497", <<"u0496">>>>,
    <<"u0499", <<"u0498">>>>, <<"u049b", <<"u049a">>>>,
    <<"u049d", <<"u049c">>>>, <<"u049f", <<"u049e">>>>,
    <<"u04a1", <<"u04a0">>>>, <<"u04a3", <<"u04a2">>>>,
    <<"u04a5", <<"u04a4">>>>, <<"u04a7", <<"u04a6">>>>,
    <<"u04a9", <<"u04a8">>>>, <<"u04ab", <<"u04aa">>>>,
    <<"u04ad", <<"u04ac">>>>, <<"u04af", <<"u04ae">>>>,
    <<"u04b1", <<"u04b0">>>>, <<"u04b3", <<"u04b2">>>>,
    <<"u04b5", <<"u04b4">>>>, <<"u04b7", <<"u04b6">>>>,
    <<"u04b9", <<"u04b8">>>>, <<"u04bb", <<"u04ba">>>>,
    <<"u04bd", <<"u04bc">>>>, <<"u04bf", <<"u04be">>>>,
    <<"u04c2", <<"u04c1">>>>, <<"u04c4", <<"u04c3">>>>,
    <<"u04c6", <<"u04c5">>>>, <<"u04c8", <<"u04c7">>>>,
    <<"u04ca", <<"u04c9">>>>, <<"u04cc", <<"u04cb">>>>,
    <<"u04ce", <<"u04cd">>>>, <<"u04cf", <<"u04c0">>>>,
    <<"u04d1", <<"u04d0">>>>, <<"u04d3", <<"u04d2">>>>,
    <<"u04d5", <<"u04d4">>>>, <<"u04d7", <<"u04d6">>>>,
    <<"u04d9", <<"u04d8">>>>, <<"u04db", <<"u04da">>>>,
    <<"u04dd", <<"u04dc">>>>, <<"u04df", <<"u04de">>>>,
    <<"u04e1", <<"u04e0">>>>, <<"u04e3", <<"u04e2">>>>,
    <<"u04e5", <<"u04e4">>>>, <<"u04e7", <<"u04e6">>>>,
    <<"u04e9", <<"u04e8">>>>, <<"u04eb", <<"u04ea">>>>,
    <<"u04ed", <<"u04ec">>>>, <<"u04ef", <<"u04ee">>>>,
    <<"u04f1", <<"u04f0">>>>, <<"u04f3", <<"u04f2">>>>,
    <<"u04f5", <<"u04f4">>>>, <<"u04f7", <<"u04f6">>>>,
    <<"u04f9", <<"u04f8">>>>, <<"u04fb", <<"u04fa">>>>,
    <<"u04fd", <<"u04fc">>>>, <<"u04ff", <<"u04fe">>>>,
    <<"u0501", <<"u0500">>>>, <<"u0503", <<"u0502">>>>,
    <<"u0505", <<"u0504">>>>, <<"u0507", <<"u0506">>>>,
    <<"u0509", <<"u0508">>>>, <<"u050b", <<"u050a">>>>,
    <<"u050d", <<"u050c">>>>, <<"u050f", <<"u050e">>>>,
    <<"u0511", <<"u0510">>>>, <<"u0513", <<"u0512">>>>,
    <<"u0515", <<"u0514">>>>, <<"u0517", <<"u0516">>>>,
    <<"u0519", <<"u0518">>>>, <<"u051b", <<"u051a">>>>,
    <<"u051d", <<"u051c">>>>, <<"u051f", <<"u051e">>>>,
    <<"u0521", <<"u0520">>>>, <<"u0523", <<"u0522">>>>,
    <<"u0525", <<"u0524">>>>, <<"u0527", <<"u0526">>>>,
    <<"u0529", <<"u0528">>>>, <<"u052b", <<"u052a">>>>,
    <<"u052d", <<"u052c">>>>, <<"u052f", <<"u052e">>>>,
    <<"u0561", <<"u0531">>>>, <<"u0562", <<"u0532">>>>,
    <<"u0563", <<"u0533">>>>, <<"u0564", <<"u0534">>>>,
    <<"u0565", <<"u0535">>>>, <<"u0566", <<"u0536">>>>,
    <<"u0567", <<"u0537">>>>, <<"u0568", <<"u0538">>>>,
    <<"u0569", <<"u0539">>>>, <<"u056a", <<"u053a">>>>,
    <<"u056b", <<"u053b">>>>, <<"u056c", <<"u053c">>>>,
    <<"u056d", <<"u053d">>>>, <<"u056e", <<"u053e">>>>,
    <<"u056f", <<"u053f">>>>, <<"u0570", <<"u0540">>>>,
    <<"u0571", <<"u0541">>>>, <<"u0572", <<"u0542">>>>,
    <<"u0573", <<"u0543">>>>, <<"u0574", <<"u0544">>>>,
    <<"u0575", <<"u0545">>>>, <<"u0576", <<"u0546">>>>,
    <<"u0577", <<"u0547">>>>, <<"u0578", <<"u0548">>>>,
    <<"u0579", <<"u0549">>>>, <<"u057a", <<"u054a">>>>,
    <<"u057b", <<"u054b">>>>, <<"u057c", <<"u054c">>>>,
    <<"u057d", <<"u054d">>>>, <<"u057e", <<"u054e">>>>,
    <<"u057f", <<"u054f">>>>, <<"u0580", <<"u0550">>>>,
    <<"u0581", <<"u0551">>>>, <<"u0582", <<"u0552">>>>,
    <<"u0583", <<"u0553">>>>, <<"u0584", <<"u0554">>>>,
    <<"u0585", <<"u0555">>>>, <<"u0586", <<"u0556">>>>,
    <<"u0587", <<"u0535", "u0552">>>>, <<"u10d0", <<"u1c90">>>>,
    <<"u10d1", <<"u1c91">>>>, <<"u10d2", <<"u1c92">>>>,
    <<"u10d3", <<"u1c93">>>>, <<"u10d4", <<"u1c94">>>>,
    <<"u10d5", <<"u1c95">>>>, <<"u10d6", <<"u1c96">>>>,
    <<"u10d7", <<"u1c97">>>>, <<"u10d8", <<"u1c98">>>>,
    <<"u10d9", <<"u1c99">>>>, <<"u10da", <<"u1c9a">>>>,
    <<"u10db", <<"u1c9b">>>>, <<"u10dc", <<"u1c9c">>>>,
    <<"u10dd", <<"u1c9d">>>>, <<"u10de", <<"u1c9e">>>>,
    <<"u10df", <<"u1c9f">>>>, <<"u10e0", <<"u1ca0">>>>,
    <<"u10e1", <<"u1ca1">>>>, <<"u10e2", <<"u1ca2">>>>,
    <<"u10e3", <<"u1ca3">>>>, <<"u10e4", <<"u1ca4">>>>,
    <<"u10e5", <<"u1ca5">>>>, <<"u10e6", <<"u1ca6">>>>,
    <<"u10e7", <<"u1ca7">>>>, <<"u10e8", <<"u1ca8">>>>,
    <<"u10e9", <<"u1ca9">>>>, <<"u10ea", <<"u1caa">>>>,
    <<"u10eb", <<"u1cab">>>>, <<"u10ec", <<"u1cac">>>>,
    <<"u10ed", <<"u1cad">>>>, <<"u10ee", <<"u1cae">>>>,
    <<"u10ef", <<"u1caf">>>>, <<"u10f0", <<"u1cb0">>>>,
    <<"u10f1", <<"u1cb1">>>>, <<"u10f2", <<"u1cb2">>>>,
    <<"u10f3", <<"u1cb3">>>>, <<"u10f4", <<"u1cb4">>>>,
    <<"u10f5", <<"u1cb5">>>>, <<"u10f6", <<"u1cb6">>>>,
    <<"u10f7", <<"u1cb7">>>>, <<"u10f8", <<"u1cb8">>>>,
    <<"u10f9", <<"u1cb9">>>>, <<"u10fa", <<"u1cba">>>>,
    <<"u10fd", <<"u1cbd">>>>, <<"u10fe", <<"u1cbe">>>>,
    <<"u10ff", <<"u1cbf">>>>, <<"u13f8", <<"u13f0">>>>,
    <<"u13f9", <<"u13f1">>>>, <<"u13fa", <<"u13f2">>>>,
    <<"u13fb", <<"u13f3">>>>, <<"u13fc", <<"u13f4">>>>,
    <<"u13fd", <<"u13f5">>>>, <<"u1c80", <<"u0412">>>>,
    <<"u1c81", <<"u0414">>>>, <<"u1c82", <<"u041e">>>>,
    <<"u1c83", <<"u0421">>>>, <<"u1c84", <<"u0422">>>>,
    <<"u1c85", <<"u0422">>>>, <<"u1c86", <<"u042a">>>>,
    <<"u1c87", <<"u0462">>>>, <<"u1c88", <<"ua64a">>>>,
    <<"u1d79", <<"ua77d">>>>, <<"u1d7d", <<"u2c63">>>>,
    <<"u1d8e", <<"ua7c6">>>>, <<"u1e01", <<"u1e00">>>>,
    <<"u1e03", <<"u1e02">>>>, <<"u1e05", <<"u1e04">>>>,
    <<"u1e07", <<"u1e06">>>>, <<"u1e09", <<"u1e08">>>>,
    <<"u1e0b", <<"u1e0a">>>>, <<"u1e0d", <<"u1e0c">>>>,
    <<"u1e0f", <<"u1e0e">>>>, <<"u1e11", <<"u1e10">>>>,
    <<"u1e13", <<"u1e12">>>>, <<"u1e15", <<"u1e14">>>>,
    <<"u1e17", <<"u1e16">>>>, <<"u1e19", <<"u1e18">>>>,
    <<"u1e1b", <<"u1e1a">>>>, <<"u1e1d", <<"u1e1c">>>>,
    <<"u1e1f", <<"u1e1e">>>>, <<"u1e21", <<"u1e20">>>>,
    <<"u1e23", <<"u1e22">>>>, <<"u1e25", <<"u1e24">>>>,
    <<"u1e27", <<"u1e26">>>>, <<"u1e29", <<"u1e28">>>>,
    <<"u1e2b", <<"u1e2a">>>>, <<"u1e2d", <<"u1e2c">>>>,
    <<"u1e2f", <<"u1e2e">>>>, <<"u1e31", <<"u1e30">>>>,
    <<"u1e33", <<"u1e32">>>>, <<"u1e35", <<"u1e34">>>>,
    <<"u1e37", <<"u1e36">>>>, <<"u1e39", <<"u1e38">>>>,
    <<"u1e3b", <<"u1e3a">>>>, <<"u1e3d", <<"u1e3c">>>>,
    <<"u1e3f", <<"u1e3e">>>>, <<"u1e41", <<"u1e40">>>>,
    <<"u1e43", <<"u1e42">>>>, <<"u1e45", <<"u1e44">>>>,
    <<"u1e47", <<"u1e46">>>>, <<"u1e49", <<"u1e48">>>>,
    <<"u1e4b", <<"u1e4a">>>>, <<"u1e4d", <<"u1e4c">>>>,
    <<"u1e4f", <<"u1e4e">>>>, <<"u1e51", <<"u1e50">>>>,
    <<"u1e53", <<"u1e52">>>>, <<"u1e55", <<"u1e54">>>>,
    <<"u1e57", <<"u1e56">>>>, <<"u1e59", <<"u1e58">>>>,
    <<"u1e5b", <<"u1e5a">>>>, <<"u1e5d", <<"u1e5c">>>>,
    <<"u1e5f", <<"u1e5e">>>>, <<"u1e61", <<"u1e60">>>>,
    <<"u1e63", <<"u1e62">>>>, <<"u1e65", <<"u1e64">>>>,
    <<"u1e67", <<"u1e66">>>>, <<"u1e69", <<"u1e68">>>>,
    <<"u1e6b", <<"u1e6a">>>>, <<"u1e6d", <<"u1e6c">>>>,
    <<"u1e6f", <<"u1e6e">>>>, <<"u1e71", <<"u1e70">>>>,
    <<"u1e73", <<"u1e72">>>>, <<"u1e75", <<"u1e74">>>>,
    <<"u1e77", <<"u1e76">>>>, <<"u1e79", <<"u1e78">>>>,
    <<"u1e7b", <<"u1e7a">>>>, <<"u1e7d", <<"u1e7c">>>>,
    <<"u1e7f", <<"u1e7e">>>>, <<"u1e81", <<"u1e80">>>>,
    <<"u1e83", <<"u1e82">>>>, <<"u1e85", <<"u1e84">>>>,
    <<"u1e87", <<"u1e86">>>>, <<"u1e89", <<"u1e88">>>>,
    <<"u1e8b", <<"u1e8a">>>>, <<"u1e8d", <<"u1e8c">>>>,
    <<"u1e8f", <<"u1e8e">>>>, <<"u1e91", <<"u1e90">>>>,
    <<"u1e93", <<"u1e92">>>>, <<"u1e95", <<"u1e94">>>>,
    <<"u1e96", <<"H", "u0331">>>>, <<"u1e97", <<"T", "u0308">>>>,
    <<"u1e98", <<"W", "u030a">>>>, <<"u1e99", <<"Y", "u030a">>>>,
    <<"u1e9a", <<"A", "u02be">>>>, <<"u1e9b", <<"u1e60">>>>,
    <<"u1ea1", <<"u1ea0">>>>, <<"u1ea3", <<"u1ea2">>>>,
    <<"u1ea5", <<"u1ea4">>>>, <<"u1ea7", <<"u1ea6">>>>,
    <<"u1ea9", <<"u1ea8">>>>, <<"u1eab", <<"u1eaa">>>>,
    <<"u1ead", <<"u1eac">>>>, <<"u1eaf", <<"u1eae">>>>,
    <<"u1eb1", <<"u1eb0">>>>, <<"u1eb3", <<"u1eb2">>>>,
    <<"u1eb5", <<"u1eb4">>>>, <<"u1eb7", <<"u1eb6">>>>,
    <<"u1eb9", <<"u1eb8">>>>, <<"u1ebb", <<"u1eba">>>>,
    <<"u1ebd", <<"u1ebc">>>>, <<"u1ebf", <<"u1ebe">>>>,
    <<"u1ec1", <<"u1ec0">>>>, <<"u1ec3", <<"u1ec2">>>>,
    <<"u1ec5", <<"u1ec4">>>>, <<"u1ec7", <<"u1ec6">>>>,
    <<"u1ec9", <<"u1ec8">>>>, <<"u1ecb", <<"u1eca">>>>,
    <<"u1ecd", <<"u1ecc">>>>, <<"u1ecf", <<"u1ece">>>>,
    <<"u1ed1", <<"u1ed0">>>>, <<"u1ed3", <<"u1ed2">>>>,
    <<"u1ed5", <<"u1ed4">>>>, <<"u1ed7", <<"u1ed6">>>>,
    <<"u1ed9", <<"u1ed8">>>>, <<"u1edb", <<"u1eda">>>>,
    <<"u1edd", <<"u1edc">>>>, <<"u1edf", <<"u1ede">>>>,
    <<"u1ee1", <<"u1ee0">>>>, <<"u1ee3", <<"u1ee2">>>>,
    <<"u1ee5", <<"u1ee4">>>>, <<"u1ee7", <<"u1ee6">>>>,
    <<"u1ee9", <<"u1ee8">>>>, <<"u1eeb", <<"u1eea">>>>,
    <<"u1eed", <<"u1eec">>>>, <<"u1eef", <<"u1eee">>>>,
    <<"u1ef1", <<"u1ef0">>>>, <<"u1ef3", <<"u1ef2">>>>,
    <<"u1ef5", <<"u1ef4">>>>, <<"u1ef7", <<"u1ef6">>>>,
    <<"u1ef9", <<"u1ef8">>>>, <<"u1efb", <<"u1efa">>>>,
    <<"u1efd", <<"u1efc">>>>, <<"u1eff", <<"u1efe">>>>,
    <<"u1f00", <<"u1f08">>>>, <<"u1f01", <<"u1f09">>>>,
    <<"u1f02", <<"u1f0a">>>>, <<"u1f03", <<"u1f0b">>>>,
    <<"u1f04", <<"u1f0c">>>>, <<"u1f05", <<"u1f0d">>>>,
    <<"u1f06", <<"u1f0e">>>>, <<"u1f07", <<"u1f0f">>>>,
    <<"u1f10", <<"u1f18">>>>, <<"u1f11", <<"u1f19">>>>,
    <<"u1f12", <<"u1f1a">>>>, <<"u1f13", <<"u1f1b">>>>,
    <<"u1f14", <<"u1f1c">>>>, <<"u1f15", <<"u1f1d">>>>,
    <<"u1f20", <<"u1f28">>>>, <<"u1f21", <<"u1f29">>>>,
    <<"u1f22", <<"u1f2a">>>>, <<"u1f23", <<"u1f2b">>>>,
    <<"u1f24", <<"u1f2c">>>>, <<"u1f25", <<"u1f2d">>>>,
    <<"u1f26", <<"u1f2e">>>>, <<"u1f27", <<"u1f2f">>>>,
    <<"u1f30", <<"u1f38">>>>, <<"u1f31", <<"u1f39">>>>,
    <<"u1f32", <<"u1f3a">>>>, <<"u1f33", <<"u1f3b">>>>,
    <<"u1f34", <<"u1f3c">>>>, <<"u1f35", <<"u1f3d">>>>,
    <<"u1f36", <<"u1f3e">>>>, <<"u1f37", <<"u1f3f">>>>,
    <<"u1f40", <<"u1f48">>>>, <<"u1f41", <<"u1f49">>>>,
    <<"u1f42", <<"u1f4a">>>>, <<"u1f43", <<"u1f4b">>>>,
    <<"u1f44", <<"u1f4c">>>>, <<"u1f45", <<"u1f4d">>>>,
    <<"u1f50", <<"u03a5", "u0313">>>>, <<"u1f51", <<"u1f59">>>>,
    <<"u1f52", <<"u03a5", "u0313", "u0300">>>>, <<"u1f53", <<"u1f5b">>>>,
    <<"u1f54", <<"u03a5", "u0313", "u0301">>>>, <<"u1f55", <<"u1f5d">>>>,
    <<"u1f56", <<"u03a5", "u0313", "u0342">>>>, <<"u1f57", <<"u1f5f">>>>,
    <<"u1f60", <<"u1f68">>>>, <<"u1f61", <<"u1f69">>>>,
    <<"u1f62", <<"u1f6a">>>>, <<"u1f63", <<"u1f6b">>>>,
    <<"u1f64", <<"u1f6c">>>>, <<"u1f65", <<"u1f6d">>>>,
    <<"u1f66", <<"u1f6e">>>>, <<"u1f67", <<"u1f6f">>>>,
    <<"u1f70", <<"u1fba">>>>, <<"u1f71", <<"u1fbb">>>>,
    <<"u1f72", <<"u1fc8">>>>, <<"u1f73", <<"u1fc9">>>>,
    <<"u1f74", <<"u1fca">>>>, <<"u1f75", <<"u1fcb">>>>,
    <<"u1f76", <<"u1fda">>>>, <<"u1f77", <<"u1fdb">>>>,
    <<"u1f78", <<"u1ff8">>>>, <<"u1f79", <<"u1ff9">>>>,
    <<"u1f7a", <<"u1fea">>>>, <<"u1f7b", <<"u1feb">>>>,
    <<"u1f7c", <<"u1ffa">>>>, <<"u1f7d", <<"u1ffb">>>>,
    <<"u1f80", <<"u1f08", "u0399">>>>, <<"u1f81", <<"u1f09", "u0399">>>>,
    <<"u1f82", <<"u1f0a", "u0399">>>>, <<"u1f83", <<"u1f0b", "u0399">>>>,
    <<"u1f84", <<"u1f0c", "u0399">>>>, <<"u1f85", <<"u1f0d", "u0399">>>>,
    <<"u1f86", <<"u1f0e", "u0399">>>>, <<"u1f87", <<"u1f0f", "u0399">>>>,
    <<"u1f88", <<"u1f08", "u0399">>>>, <<"u1f89", <<"u1f09", "u0399">>>>,
    <<"u1f8a", <<"u1f0a", "u0399">>>>, <<"u1f8b", <<"u1f0b", "u0399">>>>,
    <<"u1f8c", <<"u1f0c", "u0399">>>>, <<"u1f8d", <<"u1f0d", "u0399">>>>,
    <<"u1f8e", <<"u1f0e", "u0399">>>>, <<"u1f8f", <<"u1f0f", "u0399">>>>,
    <<"u1f90", <<"u1f28", "u0399">>>>, <<"u1f91", <<"u1f29", "u0399">>>>,
    <<"u1f92", <<"u1f2a", "u0399">>>>, <<"u1f93", <<"u1f2b", "u0399">>>>,
    <<"u1f94", <<"u1f2c", "u0399">>>>, <<"u1f95", <<"u1f2d", "u0399">>>>,
    <<"u1f96", <<"u1f2e", "u0399">>>>, <<"u1f97", <<"u1f2f", "u0399">>>>,
    <<"u1f98", <<"u1f28", "u0399">>>>, <<"u1f99", <<"u1f29", "u0399">>>>,
    <<"u1f9a", <<"u1f2a", "u0399">>>>, <<"u1f9b", <<"u1f2b", "u0399">>>>,
    <<"u1f9c", <<"u1f2c", "u0399">>>>, <<"u1f9d", <<"u1f2d", "u0399">>>>,
    <<"u1f9e", <<"u1f2e", "u0399">>>>, <<"u1f9f", <<"u1f2f", "u0399">>>>,
    <<"u1fa0", <<"u1f68", "u0399">>>>, <<"u1fa1", <<"u1f69", "u0399">>>>,
    <<"u1fa2", <<"u1f6a", "u0399">>>>, <<"u1fa3", <<"u1f6b", "u0399">>>>,
    <<"u1fa4", <<"u1f6c", "u0399">>>>, <<"u1fa5", <<"u1f6d", "u0399">>>>,
    <<"u1fa6", <<"u1f6e", "u0399">>>>, <<"u1fa7", <<"u1f6f", "u0399">>>>,
    <<"u1fa8", <<"u1f68", "u0399">>>>, <<"u1fa9", <<"u1f69", "u0399">>>>,
    <<"u1faa", <<"u1f6a", "u0399">>>>, <<"u1fab", <<"u1f6b", "u0399">>>>,
    <<"u1fac", <<"u1f6c", "u0399">>>>, <<"u1fad", <<"u1f6d", "u0399">>>>,
    <<"u1fae", <<"u1f6e", "u0399">>>>, <<"u1faf", <<"u1f6f", "u0399">>>>,
    <<"u1fb0", <<"u1fb8">>>>, <<"u1fb1", <<"u1fb9">>>>,
    <<"u1fb2", <<"u1fba", "u0399">>>>, <<"u1fb3", <<"u0391", "u0399">>>>,
    <<"u1fb4", <<"u0386", "u0399">>>>, <<"u1fb6", <<"u0391", "u0342">>>>,
    <<"u1fb7", <<"u0391", "u0342", "u0399">>>>,
    <<"u1fbc", <<"u0391", "u0399">>>>, <<"u1fbe", <<"u0399">>>>,
    <<"u1fc2", <<"u1fca", "u0399">>>>, <<"u1fc3", <<"u0397", "u0399">>>>,
    <<"u1fc4", <<"u0389", "u0399">>>>, <<"u1fc6", <<"u0397", "u0342">>>>,
    <<"u1fc7", <<"u0397", "u0342", "u0399">>>>,
    <<"u1fcc", <<"u0397", "u0399">>>>, <<"u1fd0", <<"u1fd8">>>>,
    <<"u1fd1", <<"u1fd9">>>>, <<"u1fd2", <<"u0399", "u0308", "u0300">>>>,
    <<"u1fd3", <<"u0399", "u0308", "u0301">>>>,
    <<"u1fd6", <<"u0399", "u0342">>>>,
    <<"u1fd7", <<"u0399", "u0308", "u0342">>>>, <<"u1fe0", <<"u1fe8">>>>,
    <<"u1fe1", <<"u1fe9">>>>, <<"u1fe2", <<"u03a5", "u0308", "u0300">>>>,
    <<"u1fe3", <<"u03a5", "u0308", "u0301">>>>,
    <<"u1fe4", <<"u03a1", "u0313">>>>, <<"u1fe5", <<"u1fec">>>>,
    <<"u1fe6", <<"u03a5", "u0342">>>>,
    <<"u1fe7", <<"u03a5", "u0308", "u0342">>>>,
    <<"u1ff2", <<"u1ffa", "u0399">>>>, <<"u1ff3", <<"u03a9", "u0399">>>>,
    <<"u1ff4", <<"u038f", "u0399">>>>, <<"u1ff6", <<"u03a9", "u0342">>>>,
    <<"u1ff7", <<"u03a9", "u0342", "u0399">>>>,
    <<"u1ffc", <<"u03a9", "u0399">>>>, <<"u214e", <<"u2132">>>>,
    <<"u2170", <<"u2160">>>>, <<"u2171", <<"u2161">>>>,
    <<"u2172", <<"u2162">>>>, <<"u2173", <<"u2163">>>>,
    <<"u2174", <<"u2164">>>>, <<"u2175", <<"u2165">>>>,
    <<"u2176", <<"u2166">>>>, <<"u2177", <<"u2167">>>>,
    <<"u2178", <<"u2168">>>>, <<"u2179", <<"u2169">>>>,
    <<"u217a", <<"u216a">>>>, <<"u217b", <<"u216b">>>>,
    <<"u217c", <<"u216c">>>>, <<"u217d", <<"u216d">>>>,
    <<"u217e", <<"u216e">>>>, <<"u217f", <<"u216f">>>>,
    <<"u2184", <<"u2183">>>>, <<"u24d0", <<"u24b6">>>>,
    <<"u24d1", <<"u24b7">>>>, <<"u24d2", <<"u24b8">>>>,
    <<"u24d3", <<"u24b9">>>>, <<"u24d4", <<"u24ba">>>>,
    <<"u24d5", <<"u24bb">>>>, <<"u24d6", <<"u24bc">>>>,
    <<"u24d7", <<"u24bd">>>>, <<"u24d8", <<"u24be">>>>,
    <<"u24d9", <<"u24bf">>>>, <<"u24da", <<"u24c0">>>>,
    <<"u24db", <<"u24c1">>>>, <<"u24dc", <<"u24c2">>>>,
    <<"u24dd", <<"u24c3">>>>, <<"u24de", <<"u24c4">>>>,
    <<"u24df", <<"u24c5">>>>, <<"u24e0", <<"u24c6">>>>,
    <<"u24e1", <<"u24c7">>>>, <<"u24e2", <<"u24c8">>>>,
    <<"u24e3", <<"u24c9">>>>, <<"u24e4", <<"u24ca">>>>,
    <<"u24e5", <<"u24cb">>>>, <<"u24e6", <<"u24cc">>>>,
    <<"u24e7", <<"u24cd">>>>, <<"u24e8", <<"u24ce">>>>,
    <<"u24e9", <<"u24cf">>>>, <<"u2c30", <<"u2c00">>>>,
    <<"u2c31", <<"u2c01">>>>, <<"u2c32", <<"u2c02">>>>,
    <<"u2c33", <<"u2c03">>>>, <<"u2c34", <<"u2c04">>>>,
    <<"u2c35", <<"u2c05">>>>, <<"u2c36", <<"u2c06">>>>,
    <<"u2c37", <<"u2c07">>>>, <<"u2c38", <<"u2c08">>>>,
    <<"u2c39", <<"u2c09">>>>, <<"u2c3a", <<"u2c0a">>>>,
    <<"u2c3b", <<"u2c0b">>>>, <<"u2c3c", <<"u2c0c">>>>,
    <<"u2c3d", <<"u2c0d">>>>, <<"u2c3e", <<"u2c0e">>>>,
    <<"u2c3f", <<"u2c0f">>>>, <<"u2c40", <<"u2c10">>>>,
    <<"u2c41", <<"u2c11">>>>, <<"u2c42", <<"u2c12">>>>,
    <<"u2c43", <<"u2c13">>>>, <<"u2c44", <<"u2c14">>>>,
    <<"u2c45", <<"u2c15">>>>, <<"u2c46", <<"u2c16">>>>,
    <<"u2c47", <<"u2c17">>>>, <<"u2c48", <<"u2c18">>>>,
    <<"u2c49", <<"u2c19">>>>, <<"u2c4a", <<"u2c1a">>>>,
    <<"u2c4b", <<"u2c1b">>>>, <<"u2c4c", <<"u2c1c">>>>,
    <<"u2c4d", <<"u2c1d">>>>, <<"u2c4e", <<"u2c1e">>>>,
    <<"u2c4f", <<"u2c1f">>>>, <<"u2c50", <<"u2c20">>>>,
    <<"u2c51", <<"u2c21">>>>, <<"u2c52", <<"u2c22">>>>,
    <<"u2c53", <<"u2c23">>>>, <<"u2c54", <<"u2c24">>>>,
    <<"u2c55", <<"u2c25">>>>, <<"u2c56", <<"u2c26">>>>,
    <<"u2c57", <<"u2c27">>>>, <<"u2c58", <<"u2c28">>>>,
    <<"u2c59", <<"u2c29">>>>, <<"u2c5a", <<"u2c2a">>>>,
    <<"u2c5b", <<"u2c2b">>>>, <<"u2c5c", <<"u2c2c">>>>,
    <<"u2c5d", <<"u2c2d">>>>, <<"u2c5e", <<"u2c2e">>>>,
    <<"u2c5f", <<"u2c2f">>>>, <<"u2c61", <<"u2c60">>>>,
    <<"u2c65", <<"u023a">>>>, <<"u2c66", <<"u023e">>>>,
    <<"u2c68", <<"u2c67">>>>, <<"u2c6a", <<"u2c69">>>>,
    <<"u2c6c", <<"u2c6b">>>>, <<"u2c73", <<"u2c72">>>>,
    <<"u2c76", <<"u2c75">>>>, <<"u2c81", <<"u2c80">>>>,
    <<"u2c83", <<"u2c82">>>>, <<"u2c85", <<"u2c84">>>>,
    <<"u2c87", <<"u2c86">>>>, <<"u2c89", <<"u2c88">>>>,
    <<"u2c8b", <<"u2c8a">>>>, <<"u2c8d", <<"u2c8c">>>>,
    <<"u2c8f", <<"u2c8e">>>>, <<"u2c91", <<"u2c90">>>>,
    <<"u2c93", <<"u2c92">>>>, <<"u2c95", <<"u2c94">>>>,
    <<"u2c97", <<"u2c96">>>>, <<"u2c99", <<"u2c98">>>>,
    <<"u2c9b", <<"u2c9a">>>>, <<"u2c9d", <<"u2c9c">>>>,
    <<"u2c9f", <<"u2c9e">>>>, <<"u2ca1", <<"u2ca0">>>>,
    <<"u2ca3", <<"u2ca2">>>>, <<"u2ca5", <<"u2ca4">>>>,
    <<"u2ca7", <<"u2ca6">>>>, <<"u2ca9", <<"u2ca8">>>>,
    <<"u2cab", <<"u2caa">>>>, <<"u2cad", <<"u2cac">>>>,
    <<"u2caf", <<"u2cae">>>>, <<"u2cb1", <<"u2cb0">>>>,
    <<"u2cb3", <<"u2cb2">>>>, <<"u2cb5", <<"u2cb4">>>>,
    <<"u2cb7", <<"u2cb6">>>>, <<"u2cb9", <<"u2cb8">>>>,
    <<"u2cbb", <<"u2cba">>>>, <<"u2cbd", <<"u2cbc">>>>,
    <<"u2cbf", <<"u2cbe">>>>, <<"u2cc1", <<"u2cc0">>>>,
    <<"u2cc3", <<"u2cc2">>>>, <<"u2cc5", <<"u2cc4">>>>,
    <<"u2cc7", <<"u2cc6">>>>, <<"u2cc9", <<"u2cc8">>>>,
    <<"u2ccb", <<"u2cca">>>>, <<"u2ccd", <<"u2ccc">>>>,
    <<"u2ccf", <<"u2cce">>>>, <<"u2cd1", <<"u2cd0">>>>,
    <<"u2cd3", <<"u2cd2">>>>, <<"u2cd5", <<"u2cd4">>>>,
    <<"u2cd7", <<"u2cd6">>>>, <<"u2cd9", <<"u2cd8">>>>,
    <<"u2cdb", <<"u2cda">>>>, <<"u2cdd", <<"u2cdc">>>>,
    <<"u2cdf", <<"u2cde">>>>, <<"u2ce1", <<"u2ce0">>>>,
    <<"u2ce3", <<"u2ce2">>>>, <<"u2cec", <<"u2ceb">>>>,
    <<"u2cee", <<"u2ced">>>>, <<"u2cf3", <<"u2cf2">>>>,
    <<"u2d00", <<"u10a0">>>>, <<"u2d01", <<"u10a1">>>>,
    <<"u2d02", <<"u10a2">>>>, <<"u2d03", <<"u10a3">>>>,
    <<"u2d04", <<"u10a4">>>>, <<"u2d05", <<"u10a5">>>>,
    <<"u2d06", <<"u10a6">>>>, <<"u2d07", <<"u10a7">>>>,
    <<"u2d08", <<"u10a8">>>>, <<"u2d09", <<"u10a9">>>>,
    <<"u2d0a", <<"u10aa">>>>, <<"u2d0b", <<"u10ab">>>>,
    <<"u2d0c", <<"u10ac">>>>, <<"u2d0d", <<"u10ad">>>>,
    <<"u2d0e", <<"u10ae">>>>, <<"u2d0f", <<"u10af">>>>,
    <<"u2d10", <<"u10b0">>>>, <<"u2d11", <<"u10b1">>>>,
    <<"u2d12", <<"u10b2">>>>, <<"u2d13", <<"u10b3">>>>,
    <<"u2d14", <<"u10b4">>>>, <<"u2d15", <<"u10b5">>>>,
    <<"u2d16", <<"u10b6">>>>, <<"u2d17", <<"u10b7">>>>,
    <<"u2d18", <<"u10b8">>>>, <<"u2d19", <<"u10b9">>>>,
    <<"u2d1a", <<"u10ba">>>>, <<"u2d1b", <<"u10bb">>>>,
    <<"u2d1c", <<"u10bc">>>>, <<"u2d1d", <<"u10bd">>>>,
    <<"u2d1e", <<"u10be">>>>, <<"u2d1f", <<"u10bf">>>>,
    <<"u2d20", <<"u10c0">>>>, <<"u2d21", <<"u10c1">>>>,
    <<"u2d22", <<"u10c2">>>>, <<"u2d23", <<"u10c3">>>>,
    <<"u2d24", <<"u10c4">>>>, <<"u2d25", <<"u10c5">>>>,
    <<"u2d27", <<"u10c7">>>>, <<"u2d2d", <<"u10cd">>>>,
    <<"ua641", <<"ua640">>>>, <<"ua643", <<"ua642">>>>,
    <<"ua645", <<"ua644">>>>, <<"ua647", <<"ua646">>>>,
    <<"ua649", <<"ua648">>>>, <<"ua64b", <<"ua64a">>>>,
    <<"ua64d", <<"ua64c">>>>, <<"ua64f", <<"ua64e">>>>,
    <<"ua651", <<"ua650">>>>, <<"ua653", <<"ua652">>>>,
    <<"ua655", <<"ua654">>>>, <<"ua657", <<"ua656">>>>,
    <<"ua659", <<"ua658">>>>, <<"ua65b", <<"ua65a">>>>,
    <<"ua65d", <<"ua65c">>>>, <<"ua65f", <<"ua65e">>>>,
    <<"ua661", <<"ua660">>>>, <<"ua663", <<"ua662">>>>,
    <<"ua665", <<"ua664">>>>, <<"ua667", <<"ua666">>>>,
    <<"ua669", <<"ua668">>>>, <<"ua66b", <<"ua66a">>>>,
    <<"ua66d", <<"ua66c">>>>, <<"ua681", <<"ua680">>>>,
    <<"ua683", <<"ua682">>>>, <<"ua685", <<"ua684">>>>,
    <<"ua687", <<"ua686">>>>, <<"ua689", <<"ua688">>>>,
    <<"ua68b", <<"ua68a">>>>, <<"ua68d", <<"ua68c">>>>,
    <<"ua68f", <<"ua68e">>>>, <<"ua691", <<"ua690">>>>,
    <<"ua693", <<"ua692">>>>, <<"ua695", <<"ua694">>>>,
    <<"ua697", <<"ua696">>>>, <<"ua699", <<"ua698">>>>,
    <<"ua69b", <<"ua69a">>>>, <<"ua723", <<"ua722">>>>,
    <<"ua725", <<"ua724">>>>, <<"ua727", <<"ua726">>>>,
    <<"ua729", <<"ua728">>>>, <<"ua72b", <<"ua72a">>>>,
    <<"ua72d", <<"ua72c">>>>, <<"ua72f", <<"ua72e">>>>,
    <<"ua733", <<"ua732">>>>, <<"ua735", <<"ua734">>>>,
    <<"ua737", <<"ua736">>>>, <<"ua739", <<"ua738">>>>,
    <<"ua73b", <<"ua73a">>>>, <<"ua73d", <<"ua73c">>>>,
    <<"ua73f", <<"ua73e">>>>, <<"ua741", <<"ua740">>>>,
    <<"ua743", <<"ua742">>>>, <<"ua745", <<"ua744">>>>,
    <<"ua747", <<"ua746">>>>, <<"ua749", <<"ua748">>>>,
    <<"ua74b", <<"ua74a">>>>, <<"ua74d", <<"ua74c">>>>,
    <<"ua74f", <<"ua74e">>>>, <<"ua751", <<"ua750">>>>,
    <<"ua753", <<"ua752">>>>, <<"ua755", <<"ua754">>>>,
    <<"ua757", <<"ua756">>>>, <<"ua759", <<"ua758">>>>,
    <<"ua75b", <<"ua75a">>>>, <<"ua75d", <<"ua75c">>>>,
    <<"ua75f", <<"ua75e">>>>, <<"ua761", <<"ua760">>>>,
    <<"ua763", <<"ua762">>>>, <<"ua765", <<"ua764">>>>,
    <<"ua767", <<"ua766">>>>, <<"ua769", <<"ua768">>>>,
    <<"ua76b", <<"ua76a">>>>, <<"ua76d", <<"ua76c">>>>,
    <<"ua76f", <<"ua76e">>>>, <<"ua77a", <<"ua779">>>>,
    <<"ua77c", <<"ua77b">>>>, <<"ua77f", <<"ua77e">>>>,
    <<"ua781", <<"ua780">>>>, <<"ua783", <<"ua782">>>>,
    <<"ua785", <<"ua784">>>>, <<"ua787", <<"ua786">>>>,
    <<"ua78c", <<"ua78b">>>>, <<"ua791", <<"ua790">>>>,
    <<"ua793", <<"ua792">>>>, <<"ua794", <<"ua7c4">>>>,
    <<"ua797", <<"ua796">>>>, <<"ua799", <<"ua798">>>>,
    <<"ua79b", <<"ua79a">>>>, <<"ua79d", <<"ua79c">>>>,
    <<"ua79f", <<"ua79e">>>>, <<"ua7a1", <<"ua7a0">>>>,
    <<"ua7a3", <<"ua7a2">>>>, <<"ua7a5", <<"ua7a4">>>>,
    <<"ua7a7", <<"ua7a6">>>>, <<"ua7a9", <<"ua7a8">>>>,
    <<"ua7b5", <<"ua7b4">>>>, <<"ua7b7", <<"ua7b6">>>>,
    <<"ua7b9", <<"ua7b8">>>>, <<"ua7bb", <<"ua7ba">>>>,
    <<"ua7bd", <<"ua7bc">>>>, <<"ua7bf", <<"ua7be">>>>,
    <<"ua7c1", <<"ua7c0">>>>, <<"ua7c3", <<"ua7c2">>>>,
    <<"ua7c8", <<"ua7c7">>>>, <<"ua7ca", <<"ua7c9">>>>,
    <<"ua7d1", <<"ua7d0">>>>, <<"ua7d7", <<"ua7d6">>>>,
    <<"ua7d9", <<"ua7d8">>>>, <<"ua7f6", <<"ua7f5">>>>,
    <<"uab53", <<"ua7b3">>>>, <<"uab70", <<"u13a0">>>>,
    <<"uab71", <<"u13a1">>>>, <<"uab72", <<"u13a2">>>>,
    <<"uab73", <<"u13a3">>>>, <<"uab74", <<"u13a4">>>>,
    <<"uab75", <<"u13a5">>>>, <<"uab76", <<"u13a6">>>>,
    <<"uab77", <<"u13a7">>>>, <<"uab78", <<"u13a8">>>>,
    <<"uab79", <<"u13a9">>>>, <<"uab7a", <<"u13aa">>>>,
    <<"uab7b", <<"u13ab">>>>, <<"uab7c", <<"u13ac">>>>,
    <<"uab7d", <<"u13ad">>>>, <<"uab7e", <<"u13ae">>>>,
    <<"uab7f", <<"u13af">>>>, <<"uab80", <<"u13b0">>>>,
    <<"uab81", <<"u13b1">>>>, <<"uab82", <<"u13b2">>>>,
    <<"uab83", <<"u13b3">>>>, <<"uab84", <<"u13b4">>>>,
    <<"uab85", <<"u13b5">>>>, <<"uab86", <<"u13b6">>>>,
    <<"uab87", <<"u13b7">>>>, <<"uab88", <<"u13b8">>>>,
    <<"uab89", <<"u13b9">>>>, <<"uab8a", <<"u13ba">>>>,
    <<"uab8b", <<"u13bb">>>>, <<"uab8c", <<"u13bc">>>>,
    <<"uab8d", <<"u13bd">>>>, <<"uab8e", <<"u13be">>>>,
    <<"uab8f", <<"u13bf">>>>, <<"uab90", <<"u13c0">>>>,
    <<"uab91", <<"u13c1">>>>, <<"uab92", <<"u13c2">>>>,
    <<"uab93", <<"u13c3">>>>, <<"uab94", <<"u13c4">>>>,
    <<"uab95", <<"u13c5">>>>, <<"uab96", <<"u13c6">>>>,
    <<"uab97", <<"u13c7">>>>, <<"uab98", <<"u13c8">>>>,
    <<"uab99", <<"u13c9">>>>, <<"uab9a", <<"u13ca">>>>,
    <<"uab9b", <<"u13cb">>>>, <<"uab9c", <<"u13cc">>>>,
    <<"uab9d", <<"u13cd">>>>, <<"uab9e", <<"u13ce">>>>,
    <<"uab9f", <<"u13cf">>>>, <<"uaba0", <<"u13d0">>>>,
    <<"uaba1", <<"u13d1">>>>, <<"uaba2", <<"u13d2">>>>,
    <<"uaba3", <<"u13d3">>>>, <<"uaba4", <<"u13d4">>>>,
    <<"uaba5", <<"u13d5">>>>, <<"uaba6", <<"u13d6">>>>,
    <<"uaba7", <<"u13d7">>>>, <<"uaba8", <<"u13d8">>>>,
    <<"uaba9", <<"u13d9">>>>, <<"uabaa", <<"u13da">>>>,
    <<"uabab", <<"u13db">>>>, <<"uabac", <<"u13dc">>>>,
    <<"uabad", <<"u13dd">>>>, <<"uabae", <<"u13de">>>>,
    <<"uabaf", <<"u13df">>>>, <<"uabb0", <<"u13e0">>>>,
    <<"uabb1", <<"u13e1">>>>, <<"uabb2", <<"u13e2">>>>,
    <<"uabb3", <<"u13e3">>>>, <<"uabb4", <<"u13e4">>>>,
    <<"uabb5", <<"u13e5">>>>, <<"uabb6", <<"u13e6">>>>,
    <<"uabb7", <<"u13e7">>>>, <<"uabb8", <<"u13e8">>>>,
    <<"uabb9", <<"u13e9">>>>, <<"uabba", <<"u13ea">>>>,
    <<"uabbb", <<"u13eb">>>>, <<"uabbc", <<"u13ec">>>>,
    <<"uabbd", <<"u13ed">>>>, <<"uabbe", <<"u13ee">>>>,
    <<"uabbf", <<"u13ef">>>>, <<"ufb00", <<"F", "F">>>>,
    <<"ufb01", <<"F", "I">>>>, <<"ufb02", <<"F", "L">>>>,
    <<"ufb03", <<"F", "F", "I">>>>, <<"ufb04", <<"F", "F", "L">>>>,
    <<"ufb05", <<"S", "T">>>>, <<"ufb06", <<"S", "T">>>>,
    <<"ufb13", <<"u0544", "u0546">>>>, <<"ufb14", <<"u0544", "u0535">>>>,
    <<"ufb15", <<"u0544", "u053b">>>>, <<"ufb16", <<"u054e", "u0546">>>>,
    <<"ufb17", <<"u0544", "u053d">>>>, <<"uff41", <<"uff21">>>>,
    <<"uff42", <<"uff22">>>>, <<"uff43", <<"uff23">>>>,
    <<"uff44", <<"uff24">>>>, <<"uff45", <<"uff25">>>>,
    <<"uff46", <<"uff26">>>>, <<"uff47", <<"uff27">>>>,
    <<"uff48", <<"uff28">>>>, <<"uff49", <<"uff29">>>>,
    <<"uff4a", <<"uff2a">>>>, <<"uff4b", <<"uff2b">>>>,
    <<"uff4c", <<"uff2c">>>>, <<"uff4d", <<"uff2d">>>>,
    <<"uff4e", <<"uff2e">>>>, <<"uff4f", <<"uff2f">>>>,
    <<"uff50", <<"uff30">>>>, <<"uff51", <<"uff31">>>>,
    <<"uff52", <<"uff32">>>>, <<"uff53", <<"uff33">>>>,
    <<"uff54", <<"uff34">>>>, <<"uff55", <<"uff35">>>>,
    <<"uff56", <<"uff36">>>>, <<"uff57", <<"uff37">>>>,
    <<"uff58", <<"uff38">>>>, <<"uff59", <<"uff39">>>>,
    <<"uff5a", <<"uff3a">>>>, <<"u10428", <<"u10400">>>>,
    <<"u10429", <<"u10401">>>>, <<"u1042a", <<"u10402">>>>,
    <<"u1042b", <<"u10403">>>>, <<"u1042c", <<"u10404">>>>,
    <<"u1042d", <<"u10405">>>>, <<"u1042e", <<"u10406">>>>,
    <<"u1042f", <<"u10407">>>>, <<"u10430", <<"u10408">>>>,
    <<"u10431", <<"u10409">>>>, <<"u10432", <<"u1040a">>>>,
    <<"u10433", <<"u1040b">>>>, <<"u10434", <<"u1040c">>>>,
    <<"u10435", <<"u1040d">>>>, <<"u10436", <<"u1040e">>>>,
    <<"u10437", <<"u1040f">>>>, <<"u10438", <<"u10410">>>>,
    <<"u10439", <<"u10411">>>>, <<"u1043a", <<"u10412">>>>,
    <<"u1043b", <<"u10413">>>>, <<"u1043c", <<"u10414">>>>,
    <<"u1043d", <<"u10415">>>>, <<"u1043e", <<"u10416">>>>,
    <<"u1043f", <<"u10417">>>>, <<"u10440", <<"u10418">>>>,
    <<"u10441", <<"u10419">>>>, <<"u10442", <<"u1041a">>>>,
    <<"u10443", <<"u1041b">>>>, <<"u10444", <<"u1041c">>>>,
    <<"u10445", <<"u1041d">>>>, <<"u10446", <<"u1041e">>>>,
    <<"u10447", <<"u1041f">>>>, <<"u10448", <<"u10420">>>>,
    <<"u10449", <<"u10421">>>>, <<"u1044a", <<"u10422">>>>,
    <<"u1044b", <<"u10423">>>>, <<"u1044c", <<"u10424">>>>,
    <<"u1044d", <<"u10425">>>>, <<"u1044e", <<"u10426">>>>,
    <<"u1044f", <<"u10427">>>>, <<"u104d8", <<"u104b0">>>>,
    <<"u104d9", <<"u104b1">>>>, <<"u104da", <<"u104b2">>>>,
    <<"u104db", <<"u104b3">>>>, <<"u104dc", <<"u104b4">>>>,
    <<"u104dd", <<"u104b5">>>>, <<"u104de", <<"u104b6">>>>,
    <<"u104df", <<"u104b7">>>>, <<"u104e0", <<"u104b8">>>>,
    <<"u104e1", <<"u104b9">>>>, <<"u104e2", <<"u104ba">>>>,
    <<"u104e3", <<"u104bb">>>>, <<"u104e4", <<"u104bc">>>>,
    <<"u104e5", <<"u104bd">>>>, <<"u104e6", <<"u104be">>>>,
    <<"u104e7", <<"u104bf">>>>, <<"u104e8", <<"u104c0">>>>,
    <<"u104e9", <<"u104c1">>>>, <<"u104ea", <<"u104c2">>>>,
    <<"u104eb", <<"u104c3">>>>, <<"u104ec", <<"u104c4">>>>,
    <<"u104ed", <<"u104c5">>>>, <<"u104ee", <<"u104c6">>>>,
    <<"u104ef", <<"u104c7">>>>, <<"u104f0", <<"u104c8">>>>,
    <<"u104f1", <<"u104c9">>>>, <<"u104f2", <<"u104ca">>>>,
    <<"u104f3", <<"u104cb">>>>, <<"u104f4", <<"u104cc">>>>,
    <<"u104f5", <<"u104cd">>>>, <<"u104f6", <<"u104ce">>>>,
    <<"u104f7", <<"u104cf">>>>, <<"u104f8", <<"u104d0">>>>,
    <<"u104f9", <<"u104d1">>>>, <<"u104fa", <<"u104d2">>>>,
    <<"u104fb", <<"u104d3">>>>, <<"u10597", <<"u10570">>>>,
    <<"u10598", <<"u10571">>>>, <<"u10599", <<"u10572">>>>,
    <<"u1059a", <<"u10573">>>>, <<"u1059b", <<"u10574">>>>,
    <<"u1059c", <<"u10575">>>>, <<"u1059d", <<"u10576">>>>,
    <<"u1059e", <<"u10577">>>>, <<"u1059f", <<"u10578">>>>,
    <<"u105a0", <<"u10579">>>>, <<"u105a1", <<"u1057a">>>>,
    <<"u105a3", <<"u1057c">>>>, <<"u105a4", <<"u1057d">>>>,
    <<"u105a5", <<"u1057e">>>>, <<"u105a6", <<"u1057f">>>>,
    <<"u105a7", <<"u10580">>>>, <<"u105a8", <<"u10581">>>>,
    <<"u105a9", <<"u10582">>>>, <<"u105aa", <<"u10583">>>>,
    <<"u105ab", <<"u10584">>>>, <<"u105ac", <<"u10585">>>>,
    <<"u105ad", <<"u10586">>>>, <<"u105ae", <<"u10587">>>>,
    <<"u105af", <<"u10588">>>>, <<"u105b0", <<"u10589">>>>,
    <<"u105b1", <<"u1058a">>>>, <<"u105b3", <<"u1058c">>>>,
    <<"u105b4", <<"u1058d">>>>, <<"u105b5", <<"u1058e">>>>,
    <<"u105b6", <<"u1058f">>>>, <<"u105b7", <<"u10590">>>>,
    <<"u105b8", <<"u10591">>>>, <<"u105b9", <<"u10592">>>>,
    <<"u105bb", <<"u10594">>>>, <<"u105bc", <<"u10595">>>>,
    <<"u10cc0", <<"u10c80">>>>, <<"u10cc1", <<"u10c81">>>>,
    <<"u10cc2", <<"u10c82">>>>, <<"u10cc3", <<"u10c83">>>>,
    <<"u10cc4", <<"u10c84">>>>, <<"u10cc5", <<"u10c85">>>>,
    <<"u10cc6", <<"u10c86">>>>, <<"u10cc7", <<"u10c87">>>>,
    <<"u10cc8", <<"u10c88">>>>, <<"u10cc9", <<"u10c89">>>>,
    <<"u10cca", <<"u10c8a">>>>, <<"u10ccb", <<"u10c8b">>>>,
    <<"u10ccc", <<"u10c8c">>>>, <<"u10ccd", <<"u10c8d">>>>,
    <<"u10cce", <<"u10c8e">>>>, <<"u10ccf", <<"u10c8f">>>>,
    <<"u10cd0", <<"u10c90">>>>, <<"u10cd1", <<"u10c91">>>>,
    <<"u10cd2", <<"u10c92">>>>, <<"u10cd3", <<"u10c93">>>>,
    <<"u10cd4", <<"u10c94">>>>, <<"u10cd5", <<"u10c95">>>>,
    <<"u10cd6", <<"u10c96">>>>, <<"u10cd7", <<"u10c97">>>>,
    <<"u10cd8", <<"u10c98">>>>, <<"u10cd9", <<"u10c99">>>>,
    <<"u10cda", <<"u10c9a">>>>, <<"u10cdb", <<"u10c9b">>>>,
    <<"u10cdc", <<"u10c9c">>>>, <<"u10cdd", <<"u10c9d">>>>,
    <<"u10cde", <<"u10c9e">>>>, <<"u10cdf", <<"u10c9f">>>>,
    <<"u10ce0", <<"u10ca0">>>>, <<"u10ce1", <<"u10ca1">>>>,
    <<"u10ce2", <<"u10ca2">>>>, <<"u10ce3", <<"u10ca3">>>>,
    <<"u10ce4", <<"u10ca4">>>>, <<"u10ce5", <<"u10ca5">>>>,
    <<"u10ce6", <<"u10ca6">>>>, <<"u10ce7", <<"u10ca7">>>>,
    <<"u10ce8", <<"u10ca8">>>>, <<"u10ce9", <<"u10ca9">>>>,
    <<"u10cea", <<"u10caa">>>>, <<"u10ceb", <<"u10cab">>>>,
    <<"u10cec", <<"u10cac">>>>, <<"u10ced", <<"u10cad">>>>,
    <<"u10cee", <<"u10cae">>>>, <<"u10cef", <<"u10caf">>>>,
    <<"u10cf0", <<"u10cb0">>>>, <<"u10cf1", <<"u10cb1">>>>,
    <<"u10cf2", <<"u10cb2">>>>, <<"u118c0", <<"u118a0">>>>,
    <<"u118c1", <<"u118a1">>>>, <<"u118c2", <<"u118a2">>>>,
    <<"u118c3", <<"u118a3">>>>, <<"u118c4", <<"u118a4">>>>,
    <<"u118c5", <<"u118a5">>>>, <<"u118c6", <<"u118a6">>>>,
    <<"u118c7", <<"u118a7">>>>, <<"u118c8", <<"u118a8">>>>,
    <<"u118c9", <<"u118a9">>>>, <<"u118ca", <<"u118aa">>>>,
    <<"u118cb", <<"u118ab">>>>, <<"u118cc", <<"u118ac">>>>,
    <<"u118cd", <<"u118ad">>>>, <<"u118ce", <<"u118ae">>>>,
    <<"u118cf", <<"u118af">>>>, <<"u118d0", <<"u118b0">>>>,
    <<"u118d1", <<"u118b1">>>>, <<"u118d2", <<"u118b2">>>>,
    <<"u118d3", <<"u118b3">>>>, <<"u118d4", <<"u118b4">>>>,
    <<"u118d5", <<"u118b5">>>>, <<"u118d6", <<"u118b6">>>>,
    <<"u118d7", <<"u118b7">>>>, <<"u118d8", <<"u118b8">>>>,
    <<"u118d9", <<"u118b9">>>>, <<"u118da", <<"u118ba">>>>,
    <<"u118db", <<"u118bb">>>>, <<"u118dc", <<"u118bc">>>>,
    <<"u118dd", <<"u118bd">>>>, <<"u118de", <<"u118be">>>>,
    <<"u118df", <<"u118bf">>>>, <<"u16e60", <<"u16e40">>>>,
    <<"u16e61", <<"u16e41">>>>, <<"u16e62", <<"u16e42">>>>,
    <<"u16e63", <<"u16e43">>>>, <<"u16e64", <<"u16e44">>>>,
    <<"u16e65", <<"u16e45">>>>, <<"u16e66", <<"u16e46">>>>,
    <<"u16e67", <<"u16e47">>>>, <<"u16e68", <<"u16e48">>>>,
    <<"u16e69", <<"u16e49">>>>, <<"u16e6a", <<"u16e4a">>>>,
    <<"u16e6b", <<"u16e4b">>>>, <<"u16e6c", <<"u16e4c">>>>,
    <<"u16e6d", <<"u16e4d">>>>, <<"u16e6e", <<"u16e4e">>>>,
    <<"u16e6f", <<"u16e4f">>>>, <<"u16e70", <<"u16e50">>>>,
    <<"u16e71", <<"u16e51">>>>, <<"u16e72", <<"u16e52">>>>,
    <<"u16e73", <<"u16e53">>>>, <<"u16e74", <<"u16e54">>>>,
    <<"u16e75", <<"u16e55">>>>, <<"u16e76", <<"u16e56">>>>,
    <<"u16e77", <<"u16e57">>>>, <<"u16e78", <<"u16e58">>>>,
    <<"u16e79", <<"u16e59">>>>, <<"u16e7a", <<"u16e5a">>>>,
    <<"u16e7b", <<"u16e5b">>>>, <<"u16e7c", <<"u16e5c">>>>,
    <<"u16e7d", <<"u16e5d">>>>, <<"u16e7e", <<"u16e5e">>>>,
    <<"u16e7f", <<"u16e5f">>>>, <<"u1e922", <<"u1e900">>>>,
    <<"u1e923", <<"u1e901">>>>, <<"u1e924", <<"u1e902">>>>,
    <<"u1e925", <<"u1e903">>>>, <<"u1e926", <<"u1e904">>>>,
    <<"u1e927", <<"u1e905">>>>, <<"u1e928", <<"u1e906">>>>,
    <<"u1e929", <<"u1e907">>>>, <<"u1e92a", <<"u1e908">>>>,
    <<"u1e92b", <<"u1e909">>>>, <<"u1e92c", <<"u1e90a">>>>,
    <<"u1e92d", <<"u1e90b">>>>, <<"u1e92e", <<"u1e90c">>>>,
    <<"u1e92f", <<"u1e90d">>>>, <<"u1e930", <<"u1e90e">>>>,
    <<"u1e931", <<"u1e90f">>>>, <<"u1e932", <<"u1e910">>>>,
    <<"u1e933", <<"u1e911">>>>, <<"u1e934", <<"u1e912">>>>,
    <<"u1e935", <<"u1e913">>>>, <<"u1e936", <<"u1e914">>>>,
    <<"u1e937", <<"u1e915">>>>, <<"u1e938", <<"u1e916">>>>,
    <<"u1e939", <<"u1e917">>>>, <<"u1e93a", <<"u1e918">>>>,
    <<"u1e93b", <<"u1e919">>>>, <<"u1e93c", <<"u1e91a">>>>,
    <<"u1e93d", <<"u1e91b">>>>, <<"u1e93e", <<"u1e91c">>>>,
    <<"u1e93f", <<"u1e91d">>>>, <<"u1e940", <<"u1e91e">>>>,
    <<"u1e941", <<"u1e91f">>>>, <<"u1e942", <<"u1e920">>>>,
    <<"u1e943", <<"u1e921">>>>
    }

\* the mappings an engine has when its Unicode data are of version 16.0 or
\* later
UpperCaseMapping16 == {
    <<"u019b", <<"ua7dc">>>>, <<"u0264", <<"ua7cb">>>>,
    <<"u1c8a", <<"u1c89">>>>, <<"ua7cd", <<"ua7cc">>>>,
    <<"ua7db", <<"ua7da">>>>, <<"u10d70", <<"u10d50">>>>,
    <<"u10d71", <<"u10d51">>>>, <<"u10d72", <<"u10d52">>>>,
    <<"u10d73", <<"u10d53">>>>, <<"u10d74", <<"u10d54">>>>,
    <<"u10d75", <<"u10d55">>>>, <<"u10d76", <<"u10d56">>>>,
    <<"u10d77", <<"u10d57">>>>, <<"u10d78", <<"u10d58">>>>,
    <<"u10d79", <<"u10d59">>>>, <<"u10d7a", <<"u10d5a">>>>,
    <<"u10d7b", <<"u10d5b">>>>, <<"u10d7c", <<"u10d5c">>>>,
    <<"u10d7d", <<"u10d5d">>>>, <<"u10d7e", <<"u10d5e">>>>,
    <<"u10d7f", <<"u10d5f">>>>, <<"u10d80", <<"u10d60">>>>,
    <<"u10d81", <<"u10d61">>>>, <<"u10d82", <<"u10d62">>>>,
    <<"u10d83", <<"u10d63">>>>, <<"u10d84", <<"u10d64">>>>,
    <<"u10d85", <<"u10d65">>>>
    }

\* those it has when they are of version 17.0
UpperCaseMapping17 == {
    <<"ua7cf", <<"ua7ce">>>>, <<"ua7d3", <<"ua7d2">>>>,
    <<"ua7d5", <<"ua7d4">>>>, <<"u16ebb", <<"u16ea0">>>>,
    <<"u16ebc", <<"u16ea1">>>>, <<"u16ebd", <<"u16ea2">>>>,
    <<"u16ebe", <<"u16ea3">>>>, <<"u16ebf", <<"u16ea4">>>>,
    <<"u16ec0", <<"u16ea5">>>>, <<"u16ec1", <<"u16ea6">>>>,
    <<"u16ec2", <<"u16ea7">>>>, <<"u16ec3", <<"u16ea8">>>>,
    <<"u16ec4", <<"u16ea9">>>>, <<"u16ec5", <<"u16eaa">>>>,
    <<"u16ec6", <<"u16eab">>>>, <<"u16ec7", <<"u16eac">>>>,
    <<"u16ec8", <<"u16ead">>>>, <<"u16ec9", <<"u16eae">>>>,
    <<"u16eca", <<"u16eaf">>>>, <<"u16ecb", <<"u16eb0">>>>,
    <<"u16ecc", <<"u16eb1">>>>, <<"u16ecd", <<"u16eb2">>>>,
    <<"u16ece", <<"u16eb3">>>>, <<"u16ecf", <<"u16eb4">>>>,
    <<"u16ed0", <<"u16eb5">>>>, <<"u16ed1", <<"u16eb6">>>>,
    <<"u16ed2", <<"u16eb7">>>>, <<"u16ed3", <<"u16eb8">>>>
    }

\* the Unicode data of the engine that runs the widget: the mapping above is
\* that of the versions up to 15.1
UnicodeVersions == {"15.1", "16.0", "17.0"}

\* what the later versions add to it
LaterMapping(unicode) ==
    (IF unicode \in {"16.0", "17.0"} THEN UpperCaseMapping16 ELSE {})
    \cup (IF unicode = "17.0" THEN UpperCaseMapping17 ELSE {})

\* String.prototype.toUpperCase, one character at a time, in an engine with
\* the Unicode data of that version
UpperOf(unicode, c) ==
    IF \E i \in 1..Len(Lower) : Lower[i] = c
    THEN <<Upper[CHOOSE i \in 1..Len(Lower) : Lower[i] = c]>>
    ELSE IF \E m \in LaterMapping(unicode) : m[1] = c
    THEN (CHOOSE m \in LaterMapping(unicode) : m[1] = c)[2]
    ELSE IF \E m \in UpperCaseMapping : m[1] = c
    THEN (CHOOSE m \in UpperCaseMapping : m[1] = c)[2]
    ELSE <<c>>

RECURSIVE UpperFrom(_, _, _)
UpperFrom(unicode, text, i) ==
    IF i > Len(text) THEN << >>
    ELSE UpperOf(unicode, text[i]) \o UpperFrom(unicode, text, i + 1)

toUpperCase(unicode, text) == UpperFrom(unicode, text, 1)

\* what \s matches and trim() removes: white space and line terminators
IsSpace(c) ==
    c \in {"u0009", "u000a", "u000b", "u000c", "u000d", " ", "u00a0",
           "u1680", "u2000", "u2001", "u2002", "u2003", "u2004", "u2005",
           "u2006", "u2007", "u2008", "u2009", "u200a", "u2028", "u2029",
           "u202f", "u205f", "u3000", "ufeff"}

\* PREF_MAP in insertion order, one <<key, value>> per entry; a character of
\* the source script is written as its code point, a Latin one as itself
PREF_MAP == <<
    <<<<"u5317", "u6d77", "u9053">>, <<"H", "O", "K", "K", "A", "I", "D", "O">>>>,
    <<<<"u9752", "u68ee">>, <<"A", "O", "M", "O", "R", "I">>>>,
    <<<<"u5ca9", "u624b">>, <<"I", "W", "A", "T", "E">>>>,
    <<<<"u5bae", "u57ce">>, <<"M", "I", "Y", "A", "G", "I">>>>,
    <<<<"u79cb", "u7530">>, <<"A", "K", "I", "T", "A">>>>,
    <<<<"u5c71", "u5f62">>, <<"Y", "A", "M", "A", "G", "A", "T", "A">>>>,
    <<<<"u798f", "u5cf6">>, <<"F", "U", "K", "U", "S", "H", "I", "M", "A">>>>,
    <<<<"u8328", "u57ce">>, <<"I", "B", "A", "R", "A", "K", "I">>>>,
    <<<<"u6803", "u6728">>, <<"T", "O", "C", "H", "I", "G", "I">>>>,
    <<<<"u7fa4", "u99ac">>, <<"G", "U", "N", "M", "A">>>>,
    <<<<"u57fc", "u7389">>, <<"S", "A", "I", "T", "A", "M", "A">>>>,
    <<<<"u5343", "u8449">>, <<"C", "H", "I", "B", "A">>>>,
    <<<<"u6771", "u4eac">>, <<"T", "O", "K", "Y", "O">>>>,
    <<<<"u795e", "u5948", "u5ddd">>, <<"K", "A", "N", "A", "G", "A", "W", "A">>>>,
    <<<<"u65b0", "u6f5f">>, <<"N", "I", "I", "G", "A", "T", "A">>>>,
    <<<<"u5bcc", "u5c71">>, <<"T", "O", "Y", "A", "M", "A">>>>,
    <<<<"u77f3", "u5ddd">>, <<"I", "S", "H", "I", "K", "A", "W", "A">>>>,
    <<<<"u798f", "u4e95">>, <<"F", "U", "K", "U", "I">>>>,
    <<<<"u5c71", "u68a8">>, <<"Y", "A", "M", "A", "N", "A", "S", "H", "I">>>>,
    <<<<"u9577", "u91ce">>, <<"N", "A", "G", "A", "N", "O">>>>,
    <<<<"u5c90", "u961c">>, <<"G", "I", "F", "U">>>>,
    <<<<"u9759", "u5ca1">>, <<"S", "H", "I", "Z", "U", "O", "K", "A">>>>,
    <<<<"u611b", "u77e5">>, <<"A", "I", "C", "H", "I">>>>,
    <<<<"u4e09", "u91cd">>, <<"M", "I", "E">>>>,
    <<<<"u6ecb", "u8cc0">>, <<"S", "H", "I", "G", "A">>>>,
    <<<<"u4eac", "u90fd">>, <<"K", "Y", "O", "T", "O">>>>,
    <<<<"u5927", "u962a">>, <<"O", "S", "A", "K", "A">>>>,
    <<<<"u5175", "u5eab">>, <<"H", "Y", "O", "G", "O">>>>,
    <<<<"u5948", "u826f">>, <<"N", "A", "R", "A">>>>,
    <<<<"u548c", "u6b4c", "u5c71">>, <<"W", "A", "K", "A", "Y", "A", "M", "A">>>>,
    <<<<"u9ce5", "u53d6">>, <<"T", "O", "T", "T", "O", "R", "I">>>>,
    <<<<"u5cf6", "u6839">>, <<"S", "H", "I", "M", "A", "N", "E">>>>,
    <<<<"u5ca1", "u5c71">>, <<"O", "K", "A", "Y", "A", "M", "A">>>>,
    <<<<"u5e83", "u5cf6">>, <<"H", "I", "R", "O", "S", "H", "I", "M", "A">>>>,
    <<<<"u5c71", "u53e3">>, <<"Y", "A", "M", "A", "G", "U", "C", "H", "I">>>>,
    <<<<"u5fb3", "u5cf6">>, <<"T", "O", "K", "U", "S", "H", "I", "M", "A">>>>,
    <<<<"u9999", "u5ddd">>, <<"K", "A", "G", "A", "W", "A">>>>,
    <<<<"u611b", "u5a9b">>, <<"E", "H", "I", "M", "E">>>>,
    <<<<"u9ad8", "u77e5">>, <<"K", "O", "C", "H", "I">>>>,
    <<<<"u798f", "u5ca1">>, <<"F", "U", "K", "U", "O", "K", "A">>>>,
    <<<<"u4f50", "u8cc0">>, <<"S", "A", "G", "A">>>>,
    <<<<"u9577", "u5d0e">>, <<"N", "A", "G", "A", "S", "A", "K", "I">>>>,
    <<<<"u718a", "u672c">>, <<"K", "U", "M", "A", "M", "O", "T", "O">>>>,
    <<<<"u5927", "u5206">>, <<"O", "I", "T", "A">>>>,
    <<<<"u5bae", "u5d0e">>, <<"M", "I", "Y", "A", "Z", "A", "K", "I">>>>,
    <<<<"u9e7f", "u5150", "u5cf6">>, <<"K", "A", "G", "O", "S", "H", "I", "M", "A">>>>,
    <<<<"u6c96", "u7e04">>, <<"O", "K", "I", "N", "A", "W", "A">>>>,
    <<<<"u30c8", "u30ab", "u30e9">>, <<"T", "O", "K", "A", "R", "A">>>>,
    <<<<"u5944", "u7f8e">>, <<"A", "M", "A", "M", "I">>>>
>>

\* the entries the EEW-only widget appends to PREF_MAP
PREF_MAP_Extra == <<
    <<<<"u798f", "u5cf6", "u770c", "u4e2d", "u901a", "u308a">>, <<"F", "U", "K", "U", "S", "H", "I", "M", "A", " ", "N", "A", "K", "A", "D", "O", "R", "I">>>>,
    <<<<"u5b97", "u8c37", "u5730", "u65b9">>, <<"S", "O", "Y", "A", " ", "R", "E", "G", "I", "O", "N">>>>,
    <<<<"u4e2d", "u8d8a">>, <<"C", "H", "U", "E", "T", "S", "U">>>>,
    <<<<"u6709", "u660e", "u6d77">>, <<"A", "R", "I", "A", "K", "E", " ", "S", "E", "A">>>>
>>

\* SUFFIX_MAP in insertion order
SUFFIX_MAP == <<
    <<<<"u770c">>, <<" ", "P", "R", "E", "F">>>>,
    <<<<"u5e9c">>, <<" ", "P", "R", "E", "F">>>>,
    <<<<"u90fd">>, <<" ", "M", "E", "T", "R", "O">>>>,
    <<<<"u9053">>, <<>>>>,
    <<<<"u65e5", "u672c", "u6d77">>, <<" ", "S", "E", "A", " ", "O", "F", " ", "J", "A", "P", "A", "N">>>>,
    <<<<"u592a", "u5e73", "u6d0b">>, <<" ", "P", "A", "C", "I", "F", "I", "C">>>>,
    <<<<"u30aa", "u30db", "u30fc", "u30c4", "u30af", "u6d77">>, <<" ", "O", "K", "H", "O", "T", "S", "K">>>>,
    <<<<"u6771", "u30b7", "u30ca", "u6d77">>, <<" ", "E", "A", "S", "T", " ", "C", "H", "I", "N", "A", " ", "S", "E", "A">>>>,
    <<<<"u6cbf", "u5cb8">>, <<" ", "C", "O", "A", "S", "T">>>>,
    <<<<"u6e7e">>, <<" ", "B", "A", "Y">>>>,
    <<<<"u7058">>, <<" ", "S", "E", "A">>>>,
    <<<<"u6d77", "u5ce1">>, <<" ", "S", "T", "R", "A", "I", "T">>>>,
    <<<<"u8af8", "u5cf6">>, <<" ", "I", "S", "L", "A", "N", "D", "S">>>>,
    <<<<"u5217", "u5cf6">>, <<" ", "I", "S", "L", "A", "N", "D", "S">>>>,
    <<<<"u8fd1", "u6d77">>, <<" ", "N", "E", "A", "R", " ", "S", "E", "A">>>>,
    <<<<"u5916", "u6d0b">>, <<" ", "O", "P", "E", "N", " ", "S", "E", "A">>>>,
    <<<<"u9023", "u5cf6">>, <<" ", "I", "S", "L", "A", "N", "D", "S">>>>,
    <<<<"u6c96">>, <<" ", "O", "F", "F">>>>,
    <<<<"u5317", "u6771", "u90e8">>, <<" ", "N", "O", "R", "T", "H", " ", "E", "A", "S", "T">>>>,
    <<<<"u5317", "u897f", "u90e8">>, <<" ", "N", "O", "R", "T", "H", " ", "W", "E", "S", "T">>>>,
    <<<<"u5357", "u6771", "u90e8">>, <<" ", "S", "O", "U", "T", "H", " ", "E", "A", "S", "T">>>>,
    <<<<"u5357", "u897f", "u90e8">>, <<" ", "S", "O", "U", "T", "H", " ", "W", "E", "S", "T">>>>,
    <<<<"u5317", "u90e8">>, <<" ", "N", "O", "R", "T", "H">>>>,
    <<<<"u5357", "u90e8">>, <<" ", "S", "O", "U", "T", "H">>>>,
    <<<<"u6771", "u90e8">>, <<" ", "E", "A", "S", "T">>>>,
    <<<<"u897f", "u90e8">>, <<" ", "W", "E", "S", "T">>>>,
    <<<<"u4e2d", "u90e8">>, <<" ", "C", "E", "N", "T", "R", "A", "L">>>>,
    <<<<"u5317", "u6771">>, <<" ", "N", "O", "R", "T", "H", " ", "E", "A", "S", "T">>>>,
    <<<<"u5317", "u897f">>, <<" ", "N", "O", "R", "T", "H", " ", "W", "E", "S", "T">>>>,
    <<<<"u5357", "u6771">>, <<" ", "S", "O", "U", "T", "H", " ", "E", "A", "S", "T">>>>,
    <<<<"u5357", "u897f">>, <<" ", "S", "O", "U", "T", "H", " ", "W", "E", "S", "T">>>>,
    <<<<"u5730", "u65b9">>, <<" ", "R", "E", "G", "I", "O", "N">>>>,
    <<<<"u534a", "u5cf6">>, <<" ", "P", "E", "N", "I", "N", "S", "U", "L", "A">>>>,
    <<<<"u5cf6">>, <<" ", "I", "S", "L", "A", "N", "D">>>>,
    <<<<"u5317">>, <<" ", "N", "O", "R", "T", "H">>>>,
    <<<<"u5357">>, <<" ", "S", "O", "U", "T", "H">>>>,
    <<<<"u6771">>, <<" ", "E", "A", "S", "T">>>>,
    <<<<"u897f">>, <<" ", "W", "E", "S", "T">>>>
>>

\* the entry the EEW-only widget appends to SUFFIX_MAP
SUFFIX_MAP_Extra == <<
    <<<<"u4e2d", "u5357", "u90e8">>, <<" ", "C", "E", "N", "T", "R", "A", "L", " ", "S", "O", "U", "T", "H">>>>
>>

\* key occurs in text at position i
OccursAt(text, i, key) ==
    /\ i + Len(key) - 1 <= Len(text)
    /\ \A j \in 1..Len(key) : text[i + j - 1] = key[j]

\* text.split(key).join(value), from position i on
RECURSIVE SplitJoin(_, _, _, _)
SplitJoin(text, i, key, value) ==
    IF i > Len(text) THEN << >>
    ELSE IF OccursAt(text, i, key)
         THEN value \o SplitJoin(text, i + Len(key), key, value)
         ELSE <<text[i]>> \o SplitJoin(text, i + 1, key, value)

\* word occurs somewhere in text
Contains(text, word) == \E i \in 1..Len(text) : OccursAt(text, i, word)

\* keys.forEach(key => text = text.split(key).join(map[key])), from entry k
\* on; a key that does not occur leaves the text as it is
RECURSIVE ReplaceEach(_, _, _)
ReplaceEach(text, entries, k) ==
    IF k > Len(entries) THEN text
    ELSE IF Contains(text, entries[k][1])
         THEN ReplaceEach(SplitJoin(text, 1, entries[k][1], entries[k][2]),
                          entries, k + 1)
         ELSE ReplaceEach(text, entries, k + 1)

\* text.replace(/\s+/g, ' '), from position i on
RECURSIVE CollapseSpaces(_, _)
CollapseSpaces(text, i) ==
    IF i > Len(text) THEN << >>
    ELSE IF IsSpace(text[i])
         THEN IF i > 1 /\ IsSpace(text[i - 1])
              THEN CollapseSpaces(text, i + 1)
              ELSE <<" ">> \o CollapseSpaces(text, i + 1)
         ELSE <<text[i]>> \o CollapseSpaces(text, i + 1)

\* String.prototype.trim
RECURSIVE trim(_)
trim(text) ==
    IF text = << >> THEN text
    ELSE IF IsSpace(Head(text)) THEN trim(Tail(text))
    ELSE IF IsSpace(text[Len(text)]) THEN trim(SubSeq(text, 1, Len(text) - 1))
    ELSE text

\* Object.keys(map).sort((a, b) => b.length - a.length): the entries whose key
\* has n characters, then the shorter ones, each group in insertion order
RECURSIVE LongestFirst(_, _)
LongestFirst(entries, n) ==
    IF n = 0 THEN << >>
    ELSE SelectSeq(entries, LAMBDA e : Len(e[1]) = n)
         \o LongestFirst(entries, n - 1)

LongestKey(entries) ==
    CHOOSE n \in 0..Len(entries) + 8 :
        /\ \A k \in 1..Len(entries) : Len(entries[k][1]) <= n
        /\ \E k \in 1..Len(entries) : Len(entries[k][1]) = n

\* (mutant of sortedKeys: the keys left in insertion order)
insertionKeys(entries) == entries

sortedKeys(entries) == LongestFirst(entries, LongestKey(entries))

\* the body of translateText after the key order is fixed
Replaced(unicode, text, prefs, suffixes) ==
    IF text = << >> THEN << >>
    ELSE toUpperCase(unicode,
                     trim(CollapseSpaces(
                         ReplaceEach(ReplaceEach(text, prefs, 1),
                                     suffixes, 1), 1)))

\* the entries of PREF_MAP in the order widget w substitutes them
prefKeys(w) ==
    IF w = "eewOnly" THEN sortedKeys(PREF_MAP \o PREF_MAP_Extra) ELSE PREF_MAP

\* the entries of SUFFIX_MAP in the order widget w substitutes them
suffixKeys(w) ==
    IF w = "eewOnly" THEN sortedKeys(SUFFIX_MAP \o SUFFIX_MAP_Extra)
    ELSE SUFFIX_MAP

\* translateText of widget w in an engine of that Unicode version
translateText(unicode, w, text) ==
    Replaced(unicode, text, prefKeys(w), suffixKeys(w))

\* the pieces place names are drawn from
NameParts ==
    { <<"u798f", "u5cf6", "u770c">>,      \* Fukushima-ken
      <<"u4e2d", "u901a", "u308a">>,      \* Nakadori
      <<"u6771", "u4eac", "u90fd">>,      \* Tokyo-to
      <<"u5317", "u6d77", "u9053">>,      \* Hokkaido
      <<"u8fd1", "u6d77">>,               \* kinkai
      <<"u4e2d", "u5357", "u90e8">>,      \* chu-nanbu
      <<"u6c96">>,                        \* oki
      <<" ">>,
      <<"u3000">>,                        \* ideographic space
      <<"k", "m">>,
      <<"uff4b", "uff4d">>,               \* km in full-width letters
      <<"u0264">>,                        \* rams horn: a capital since 16.0
      <<"ua7d3">> }                       \* double thorn: one since 17.0

RECURSIVE NamesOf(_)
NamesOf(n) ==
    IF n = 0 THEN {<< >>}
    ELSE NamesOf(n - 1) \cup {s \o p : s \in NamesOf(n - 1), p \in NameParts}

Names == NamesOf(MaxParts)

\* a call translateText(trIn), in whichever engine runs the widget
Translate ==
    /\ trOut = Untranslated
    /\ \E unicode \in UnicodeVersions :
          trOut' = translateText(unicode, widget, trIn)
    /\ UNCHANGED <<widget, now, online, quakeData, tsunamiData, eewData,
                   testMode, activeMode, pollingInterval, lastAlertTime,
                   pending, eewTimers, detailsTimers, rotationTimers,
                   refreshTimeouts, eewInFlight, detInFlight, sound, applied,
                   lastFiredAt, preTest, syncListeners, detMid, loading,
                   waits, trIn, feed,
                   flights, newest, mounted, audioOpen, areasIn, gradeOut>>

\* ------------------------------------------------------ tsunami maxGrade

NoGrade == "none"       \* no tsunami entry reduced yet

\* a.grade as the feed sends it; "Advisory" stands for any other string
Grades == {"MajorWarning", "Warning", "Watch", "Unknown", "Advisory"}

\* areas.some(a => a.grade === g)
SomeGrade(areas, g) == \E i \in 1..Len(areas) : areas[i] = g

\* (mutant of maxGrade: Warning tested before MajorWarning)
maxGradeWarningFirst(areas) ==
    IF SomeGrade(areas, "Warning") THEN "Warning"
    ELSE IF SomeGrade(areas, "MajorWarning") THEN "MajorWarning"
    ELSE IF SomeGrade(areas, "Watch") THEN "Watch"
    ELSE "Unknown"

\* the if / else-if chain of the tsunami branch
maxGrade(areas) ==
    IF SomeGrade(areas, "MajorWarning") THEN "MajorWarning"
    ELSE IF SomeGrade(areas, "Warning") THEN "Warning"
    ELSE IF SomeGrade(areas, "Watch") THEN "Watch"
    ELSE "Unknown"

RECURSIVE AreaLists(_)
AreaLists(n) ==
    IF n = 0 THEN {<< >>}
    ELSE AreaLists(n - 1)
         \cup {Append(l, g) : l \in AreaLists(n - 1), g \in Grades}

\* the tsunami branch reduces the areas of entry 0
ReduceGrades ==
    /\ gradeOut = NoGrade
    /\ gradeOut' = maxGrade(areasIn)
    /\ UNCHANGED <<widget, now, online, quakeData, tsunamiData, eewData,
                   testMode, activeMode, pollingInterval, lastAlertTime,
                   pending, eewTimers, detailsTimers, rotationTimers,
                   refreshTimeouts, eewInFlight, detInFlight, sound, applied,
                   lastFiredAt, preTest, syncListeners, detMid, loading,
                   waits, trIn, trOut, feed,
                   flights, newest, mounted, audioOpen, areasIn>>

\* the details server before its first event
NoFeed == [quake |-> Empty, tsunami |-> Empty]

\* the state of the first render, before its effects
FirstRender(w) ==
    /\ widget = w
    /\ now = 0
    /\ online = TRUE
    /\ quakeData = Null /\ tsunamiData = Null /\ eewData = Null
    /\ testMode = FALSE
    /\ activeMode = "EARTHQUAKE"
    /\ pollingInterval = IF w = "component" THEN DetailsPeriodComponent
                         ELSE NormalInterval
    /\ lastAlertTime = NoTime
    /\ pending = (CASE w = "full" ->
                         {"polling", "eewPoller", "detailsPoller", "alert",
                          "rotation"}
                    [] w = "component" ->
                         {"eewPoller", "detailsPoller", "systemSync"}
                    [] OTHER -> {"eewPoller"})
    /\ eewTimers = << >> /\ detailsTimers = << >> /\ rotationTimers = << >>
    /\ refreshTimeouts = << >> /\ syncListeners = << >>
    /\ detMid = 0 /\ loading = FALSE /\ waits = {}
    /\ eewInFlight = 0 /\ detInFlight = 0
    /\ sound = {} /\ applied = "none"
    /\ preTest = Null
    /\ lastFiredAt = [f \in {"QUAKE", "TSUNAMI", "EEW"} |-> NoTime]

\* the mounted widget, translateText not called
InitOf(w) ==
    /\ FirstRender(w)
    /\ trIn = << >> /\ trOut = Untranslated
    /\ feed = NoFeed /\ flights = << >> /\ newest = NoFeed
    /\ mounted = TRUE /\ audioOpen = 0
    /\ areasIn = << >> /\ gradeOut = NoGrade

Init == \E w \in Widgets : InitOf(w)

\* no call of translateText or of the grade reduction, and the component
\* stays as it is mounted
NoCall == UNCHANGED <<trIn, trOut, mounted, areasIn, gradeOut>>

\* the details responses not told apart
NoTraffic == UNCHANGED <<feed, flights, newest>>

\* playAlertSound not followed
NoAudio == UNCHANGED audioOpen

\* playAlertSound: a call makes a context with new AudioContextClass() and
\* no call closes one; where the window has no AudioContext class the call
\* returns before it, and a constructor that throws leaves none behind
Heard ==
    /\ \E made \in (IF sound' # {} THEN BOOLEAN ELSE {FALSE}) :
         audioOpen' = IF made THEN Min(audioOpen + 1, MaxContexts)
                      ELSE audioOpen
    /\ UNCHANGED <<lastFiredAt, preTest>>
    /\ NoCall /\ NoTraffic

NoObserver == UNCHANGED <<lastFiredAt, preTest>> /\ NoCall /\ NoAudio

\* history variable: the live cells at enterTest
History ==
    /\ UNCHANGED lastFiredAt
    /\ NoCall /\ NoTraffic /\ NoAudio
    /\ preTest' = IF ~testMode /\ testMode'
                  THEN [quake |-> quakeData, tsunami |-> tsunamiData,
                        last |-> lastAlertTime]
                  ELSE IF testMode' THEN preTest ELSE Null

NoHistory == NoObserver /\ NoTraffic

\* history variable: per feed, the occurredAt the alert sound last announced
Feeds == {"QUAKE", "TSUNAMI", "EEW"}

NoteFired(events) ==
    [f \in Feeds |->
        IF \E e \in events : e[1] = f
        THEN (CHOOSE e \in events : e[1] = f)[2]
        ELSE lastFiredAt[f]]

Fired ==
    /\ lastFiredAt' = NoteFired(sound')
    /\ UNCHANGED preTest
    /\ NoCall /\ NoTraffic /\ NoAudio

Next ==
    \/ RunEffectsFull /\ NoHistory
    \/ RunEffectsComponent /\ NoHistory
    \/ RunEffectsEewOnly /\ NoHistory
    \/ EEWTick /\ NoHistory
    \/ DetailsTick /\ NoHistory
    \/ RotationTick /\ NoHistory
    \/ RotationTickEarly /\ NoHistory
    \/ DeliverEEW /\ NoHistory
    \/ DeliverDetails /\ NoHistory
    \/ ResumeDetails /\ NoHistory
    \/ handleManualRefresh /\ NoHistory
    \/ RefreshTimeout /\ NoHistory
    \/ SystemSync /\ NoHistory
    \/ SelectTab /\ NoHistory
    \/ EnterTest /\ NoHistory
    \/ ExitTest /\ NoHistory
    \/ AdvanceTime /\ NoHistory
    \/ NetworkChange /\ NoHistory

NextHistory ==
    \/ RunEffectsFull /\ History
    \/ EEWTick /\ History
    \/ DetailsTick /\ History
    \/ RotationTick /\ History
    \/ RotationTickEarly /\ History
    \/ DeliverEEW /\ History
    \/ DeliverDetails /\ History
    \/ ResumeDetails /\ History
    \/ RefreshTimeout /\ History
    \/ EnterTest /\ History
    \/ ExitTest /\ History
    \/ AdvanceTime /\ History

\* the full widget with test mode never toggled, the refresh button not
\* pressed and the network up, with the announcements recorded
NextFired ==
    \/ RunEffectsFull /\ Fired
    \/ EEWTick /\ Fired
    \/ DetailsTick /\ Fired
    \/ RotationTick /\ Fired
    \/ RotationTickEarly /\ Fired
    \/ DeliverEEW /\ Fired
    \/ DeliverDetails /\ Fired
    \/ ResumeDetails /\ Fired
    \/ SelectTab /\ Fired
    \/ AdvanceTime /\ Fired

Spec == Init /\ [][Next]_vars

\* the full widget taken in and out of test mode, the network up and no
\* button but the test button pressed, with the history variables recorded
SpecHistory == InitOf("full") /\ [][NextHistory]_vars

SpecFired == InitOf("full") /\ [][NextFired]_vars

\* the full widget left alone with its feeds: test mode never toggled, no
\* manual poll, the network up
NextAlert ==
    \/ RunEffectsFull /\ NoHistory
    \/ EEWTick /\ NoHistory
    \/ DetailsTick /\ NoHistory
    \/ RotationTick /\ NoHistory
    \/ RotationTickEarly /\ NoHistory
    \/ DeliverEEW /\ NoHistory
    \/ DeliverDetails /\ NoHistory
    \/ ResumeDetails /\ NoHistory
    \/ AdvanceTime /\ NoHistory

\* React runs the effects of a committed render: a pending effect pass is
\* not postponed for ever
SpecAlert ==
    /\ InitOf("full")
    /\ [][NextAlert]_vars
    /\ WF_vars(RunEffectsFull /\ NoHistory)

\* ---------------------------------------- details responses told apart

\* n calls of fetchDetails reach their fetch: each response carries the
\* entries the server serves now; calls beyond MaxOverlap are not tracked
Send(n) ==
    LET room == Min(n, MaxOverlap - Len(flights))
    IN  /\ flights' = flights \o [i \in 1..room |->
                                     [quake |-> feed.quake,
                                      tsunami |-> feed.tsunami,
                                      half |-> FALSE]]
        /\ newest' = IF room > 0 THEN feed ELSE newest
        /\ UNCHANGED feed

\* the fetchDetails calls of an effect pass: the details poller's and the
\* alert effect's
SentByEffects ==
    Send((IF "detailsPoller" \in pending /\ ~testMode /\ ~FetchSkipped(testMode)
          THEN 1 ELSE 0)
         + (IF "alert" \in pending /\ alertFires /\ ~FetchSkipped(testMode)
            THEN 1 ELSE 0))

\* the fetchDetails call of a tick of the details poller
SentByTick ==
    /\ Len(flights) < MaxOverlap
    /\ Send(IF \E i \in 1..Len(detailsTimers) :
                  ~FetchSkipped(detailsTimers[i].testMode)
            THEN 1 ELSE 0)

\* entry 0 is none yet, or an event of an earlier instant
Superseded(entry) == IF IsEntry(entry) THEN entry.time < now ELSE TRUE

\* the agency publishes an event: entry 0 of a feed is replaced by a newer one
Publish ==
    /\ Quiet
    /\ \/ /\ Superseded(feed.quake)
          /\ \E k \in QuakeKinds :
                feed' = [feed EXCEPT !.quake = mkQuake(now, k[1], k[2])]
       \/ /\ Superseded(feed.tsunami)
          /\ \E c \in BOOLEAN :
                feed' = [feed EXCEPT !.tsunami = mkTsunami(now, c)]
    /\ sound' = {} /\ applied' = "none"
    /\ UNCHANGED <<widget, now, online, quakeData, tsunamiData, eewData,
                   testMode, activeMode, pollingInterval, lastAlertTime,
                   pending, eewTimers, detailsTimers, rotationTimers,
                   refreshTimeouts, eewInFlight, detInFlight, syncListeners,
                   detMid, loading, waits, flights, newest>>

\* flights without its i-th response
Landed(i) == SubSeq(flights, 1, i - 1) \o SubSeq(flights, i + 1, Len(flights))

\* the responses of one details fetch arrive, whichever fetch it is: the call
\* runs up to the await of the tsunami body
DeliverFlight ==
    /\ Quiet
    /\ widget = "full"
    /\ \E i \in 1..Len(flights) :
          /\ ~flights[i].half
          /\ StoreQuake(flights[i].quake, flights[i].tsunami)
          /\ flights' =
               IF TsunamiAwaited(flights[i].quake, flights[i].tsunami)
               THEN [flights EXCEPT ![i].half = TRUE]
               ELSE Landed(i)
    /\ UNCHANGED <<detInFlight, detMid, loading, waits, feed, newest>>

\* a suspended call resumes with the tsunami body of its response
ResumeFlight ==
    /\ widget = "full"
    /\ \E i \in 1..Len(flights) :
          /\ flights[i].half
          /\ StoreTsunami(flights[i].tsunami)
          /\ flights' = Landed(i)
    /\ UNCHANGED <<detMid, loading, waits, feed, newest>>

\* no call is suspended at the await of a body
NoneHalf == \A i \in 1..Len(flights) : ~flights[i].half

\* the full widget and its details feed, test mode never toggled, each details
\* fetch followed from its call to its response
NextRace ==
    \/ RunEffectsFull /\ NoObserver /\ SentByEffects
    \/ DetailsTick /\ NoObserver /\ SentByTick
    \/ DeliverFlight /\ NoObserver
    \/ ResumeFlight /\ NoObserver
    \/ Publish /\ NoObserver
    \/ NoneHalf /\ AdvanceTime /\ NoObserver /\ NoTraffic

SpecRace == InitOf("full") /\ [][NextRace]_vars

\* the full widget with its events, the refresh button left alone (its two
\* fetches are those the pollers' ticks issue); the effects of a committed
\* render run, and a rotation interval that stays armed fires: the cleanup
\* of the effect clears it whenever eewData or testMode changes, so an
\* interval armed and cleared again and again need never fire
NextRotation ==
    \/ RunEffectsFull /\ NoHistory
    \/ EEWTick /\ NoHistory
    \/ DetailsTick /\ NoHistory
    \/ RotationTick /\ NoHistory
    \/ RotationTickEarly /\ NoHistory
    \/ DeliverEEW /\ NoHistory
    \/ DeliverDetails /\ NoHistory
    \/ ResumeDetails /\ NoHistory
    \/ RefreshTimeout /\ NoHistory
    \/ SelectTab /\ NoHistory
    \/ EnterTest /\ NoHistory
    \/ ExitTest /\ NoHistory
    \/ AdvanceTime /\ NoHistory
    \/ NetworkChange /\ NoHistory

SpecRotation ==
    /\ InitOf("full")
    /\ [][NextRotation]_vars
    /\ WF_vars(RunEffectsFull /\ NoHistory)
    /\ WF_vars((RotationTick \/ RotationTickEarly) /\ NoHistory)

\* the EEW fetches in flight after the effects of the last render have run
FlushedEEW ==
    IF Quiet THEN eewInFlight
    ELSE IF widget = "eewOnly" \/ ("eewPoller" \in pending /\ ~testMode)
    THEN Issue(eewInFlight, testMode)
    ELSE eewInFlight

\* the details fetches in flight after them: that of the poller effect and
\* that of the alert effect
FlushedDetails ==
    LET afterPoller ==
            IF widget # "eewOnly" /\ "detailsPoller" \in pending /\ ~testMode
            THEN Issue(detInFlight, testMode) ELSE detInFlight
    IN  IF Quiet THEN detInFlight
        ELSE IF widget = "full" /\ "alert" \in pending /\ alertFires
        THEN Issue(afterPoller, testMode)
        ELSE afterPoller

\* the sound of the alert effect among them
FlushedSound ==
    IF ~Quiet /\ widget = "full" /\ "alert" \in pending /\ alertFires
    THEN AlertEvents ELSE {}

\* the component is unmounted: the effects of the last render run first if
\* they have not, then the cleanup of every effect that returned one; what
\* the effects set is never rendered, and no effect runs again
Unmount ==
    /\ mounted
    /\ mounted' = FALSE
    /\ eewInFlight' = FlushedEEW
    /\ detInFlight' = FlushedDetails
    /\ sound' = FlushedSound
    /\ eewTimers' = ClearInterval(eewTimers)
    /\ detailsTimers' = ClearInterval(detailsTimers)
    /\ rotationTimers' = ClearInterval(rotationTimers)
    /\ syncListeners' = << >>
    /\ pending' = {}
    /\ applied' = "none"
    /\ UNCHANGED <<widget, now, online, quakeData, tsunamiData, eewData,
                   testMode, activeMode, pollingInterval, lastAlertTime,
                   refreshTimeouts, lastFiredAt,
                   preTest, trIn, trOut, feed, flights, newest, audioOpen,
                   areasIn, gradeOut, detMid, loading, waits>>

\* what the unmounted component's continuations and timeout leave alone: its
\* cells, on which a set-state call does nothing, and its cleared timers
Detached ==
    /\ ~mounted
    /\ sound' = {} /\ applied' = "none"
    /\ UNCHANGED <<widget, now, online, quakeData, tsunamiData, eewData,
                   testMode, activeMode, pollingInterval, lastAlertTime,
                   pending, eewTimers, detailsTimers, rotationTimers,
                   syncListeners, loading>>

\* the response of an EEW fetch arrives after the unmount
LateEEW ==
    /\ Detached
    /\ eewInFlight > 0
    /\ eewInFlight' = eewInFlight - 1
    /\ \E owners \in Owners("eew", eewInFlight) :
          waits' = Awaiting(owners, "eew", {})
    /\ UNCHANGED <<detInFlight, detMid, refreshTimeouts>>

\* both responses of a details fetch arrive after the unmount
LateDetails ==
    /\ Detached
    /\ detInFlight > 0
    /\ detMid < MaxInFlight
    /\ detInFlight' = detInFlight - 1
    /\ \E q \in QuakeResponses, t \in TsunamiArrivals :
          LET next == IF TsunamiAwaited(q, t) THEN {"body"} ELSE {}
          IN  /\ detMid' = IF TsunamiAwaited(q, t) THEN detMid + 1 ELSE detMid
              /\ \E owners \in Owners("details", detInFlight) :
                    waits' = Awaiting(owners, "details", next)
    /\ UNCHANGED <<eewInFlight, refreshTimeouts>>

\* the tsunami body of a suspended fetchDetails is read after the unmount
LateBody ==
    /\ Detached
    /\ detMid > 0
    /\ detMid' = detMid - 1
    /\ \E owners \in Owners("body", detMid) :
          waits' = Awaiting(owners, "body", {})
    /\ UNCHANGED <<eewInFlight, detInFlight, refreshTimeouts>>

\* the timeout armed by leaving test mode fires after the unmount: the
\* fetches of handleManualRefresh go through their guards all the same
LateRefresh ==
    /\ Detached
    /\ Len(refreshTimeouts) > 0
    /\ LET tm == Head(refreshTimeouts).testMode
       IN  /\ eewInFlight' = Issue(eewInFlight, tm)
           /\ detInFlight' = Issue(detInFlight, tm)
           /\ waits' = IF FetchSkipped(tm) THEN waits
                        ELSE waits \cup {{"eew", "details"}}
    /\ refreshTimeouts' = Tail(refreshTimeouts)
    /\ UNCHANGED detMid

\* the full widget from mount to unmount; a timeout armed before the unmount
\* still fires after it, and the fetches in flight are still answered
NextLifecycle ==
    \/ mounted /\ RunEffectsFull /\ NoHistory
    \/ mounted /\ EEWTick /\ NoHistory
    \/ mounted /\ DetailsTick /\ NoHistory
    \/ mounted /\ RotationTick /\ NoHistory
    \/ mounted /\ RotationTickEarly /\ NoHistory
    \/ mounted /\ DeliverEEW /\ NoHistory
    \/ mounted /\ DeliverDetails /\ NoHistory
    \/ mounted /\ ResumeDetails /\ NoHistory
    \/ mounted /\ handleManualRefresh /\ NoHistory
    \/ mounted /\ RefreshTimeout /\ NoHistory
    \/ mounted /\ SelectTab /\ NoHistory
    \/ mounted /\ EnterTest /\ NoHistory
    \/ mounted /\ ExitTest /\ NoHistory
    \/ mounted /\ AdvanceTime /\ NoHistory
    \/ mounted /\ NetworkChange /\ NoHistory
    \/ Unmount
    \/ LateEEW /\ NoHistory
    \/ LateDetails /\ NoHistory
    \/ LateBody /\ NoHistory
    \/ LateRefresh /\ NoHistory

SpecLifecycle == InitOf("full") /\ [][NextLifecycle]_vars

\* the full widget with its feeds and its test button, the audio contexts of
\* playAlertSound counted
NextAudio ==
    \/ RunEffectsFull /\ Heard
    \/ EEWTick /\ Heard
    \/ DetailsTick /\ Heard
    \/ DeliverEEW /\ Heard
    \/ DeliverDetails /\ Heard
    \/ ResumeDetails /\ Heard
    \/ RotationTick /\ Heard
    \/ RotationTickEarly /\ Heard
    \/ RefreshTimeout /\ Heard
    \/ EnterTest /\ Heard
    \/ ExitTest /\ Heard
    \/ AdvanceTime /\ Heard

SpecAudio == InitOf("full") /\ [][NextAudio]_vars

\* the grade reduction alone, in the two widgets that have it
InitGrade ==
    \E w \in {"full", "component"}, areas \in AreaLists(MaxAreas) :
        /\ FirstRender(w) /\ trIn = << >> /\ trOut = Untranslated
        /\ feed = NoFeed /\ flights = << >> /\ newest = NoFeed
        /\ mounted = TRUE /\ audioOpen = 0
        /\ areasIn = areas /\ gradeOut = NoGrade

NextGrade == ReduceGrades

SpecGrade == InitGrade /\ [][NextGrade]_vars

\* translateText alone: each widget's variant, called once with a name
InitTranslate ==
    \E w \in Widgets, text \in Names :
        /\ FirstRender(w) /\ trIn = text /\ trOut = Untranslated
        /\ feed = NoFeed /\ flights = << >> /\ newest = NoFeed
    /\ mounted = TRUE /\ audioOpen = 0
    /\ areasIn = << >> /\ gradeOut = NoGrade

NextTranslate == Translate

SpecTranslate == InitTranslate /\ [][NextTranslate]_vars

\* ================================================================ claims

ActiveTsunami == tsunamiData # Null /\ ~tsunamiData.cancelled

AnyEEWEntry ==
    {rawEEW(t, c, TRUE, e) : t \in Times, c \in BOOLEAN, e \in BOOLEAN}

\* C1: an event with a given occurredAt triggers the alert sound at most once
\* per feed type: no step announces, for a feed, the occurredAt that was the
\* last one announced for that feed (checked under SpecFired).
C1_DedupAtMostOnce ==
    [][\A e \in sound' : e[1] \in Feeds => lastFiredAt[e[1]] # e[2]]_vars

C3_EEWForcesDisplay ==
    (/\ widget \in {"full", "component"}
     /\ Quiet
     /\ eewData # Null
     /\ ~eewData.cancelled
     /\ now - eewData.time <= StaleWindow)
    => activeMode = "EEW"

\* C4: once more than 180 seconds have passed since the stored EEW's
\* occurredAt, it is cleared: no EEW poll cycle that ends then (a response of
\* any kind, or a tick skipped offline) leaves the over-age EEW stored.
C4_StaleEEWCleared ==
    [][(/\ widget = "full" /\ ~testMode
        /\ eewData # Null /\ now - eewData.time > StaleWindow
        /\ (DeliverEEW \/ (EEWTick /\ ~online)))
       => (eewData' = Null \/ now - eewData'.time <= StaleWindow)]_vars

\* C5: an EEW response whose entry 0 has an occurredAt 180 seconds or more
\* before now leaves eewData empty, whatever the entry's other fields.
C5_StaleEntryClears ==
    [][eewInFlight' < eewInFlight =>
          \A r \in {e \in AnyEEWEntry : now - e.time >= StaleWindow} :
              ApplyEEW(r) => eewData' = Null]_vars

\* C5 witness: a non-cancelled Warning entry past the window has just
\* replaced a stored EEW by null.
C5_Witness == applied = "stale" /\ eewData = Null /\ widget = "full"

\* C6: applying a cancelled tsunami or EEW entry triggers no alert sound: the
\* effect pass that follows a response whose cancelled entry changed the
\* cells announces nothing (stated where every stored event has already
\* been announced; checked under SpecFired).
C6_CancelledNeverSounds ==
    [][(/\ applied = "cancelled"
        /\ (quakeData # Null => lastFiredAt["QUAKE"] = quakeData.time)
        /\ (ActiveTsunami => lastFiredAt["TSUNAMI"] = tsunamiData.time))
       => sound' = {}]_vars

\* C7: every newly received non-cancelled event whose occurredAt has not yet
\* been announced for its feed triggers the alert sound and is recorded: the
\* effect pass after the cells changed announces the stored EEW, the stored
\* non-cancelled tsunami and the stored quake (of maxScale >= 30, the
\* intensity the alert is for) whenever its occurredAt is not the one last
\* announced for that feed (checked under SpecFired).
C7_EveryNewEventSounds ==
    [][(~testMode /\ "alert" \in pending /\ RunEffectsFull) =>
          /\ (eewData # Null /\ lastFiredAt["EEW"] # eewData.time)
                => <<"EEW", eewData.time>> \in sound'
          /\ (ActiveTsunami /\ lastFiredAt["TSUNAMI"] # tsunamiData.time)
                => <<"TSUNAMI", tsunamiData.time>> \in sound'
          /\ (/\ quakeData # Null /\ quakeData.maxScale >= AlertScale
              /\ lastFiredAt["QUAKE"] # quakeData.time)
                => <<"QUAKE", quakeData.time>> \in sound']_vars

\* C8: in the full widget pollingInterval is 6000 or 30000, and whenever test
\* mode is off and the pending effects have run it is 6000 exactly if an EEW
\* is stored, or the stored quake has magnitude >= 6.0, or a non-cancelled
\* tsunami is stored.
C8_CadenceMatchesEmergency ==
    widget = "full" =>
       /\ pollingInterval \in {EmergencyInterval, NormalInterval}
       /\ (~testMode /\ Quiet) =>
             (pollingInterval = EmergencyInterval
                <=> \/ eewData # Null
                    \/ (quakeData # Null
                        /\ quakeData.magnitude >= EmergencyMagnitude)
                    \/ ActiveTsunami)

\* C8 witness: a quake of magnitude exactly 6.0 alone has tightened the
\* cadence.
C8_Witness ==
    /\ widget = "full" /\ ~testMode /\ Quiet
    /\ eewData = Null /\ ~ActiveTsunami
    /\ quakeData # Null /\ quakeData.magnitude = EmergencyMagnitude
    /\ pollingInterval = EmergencyInterval

\* C9: with no EEW and no non-cancelled tsunami stored, once the stored
\* quake's occurredAt is more than 180 seconds in the past the cadence is
\* back at 30000.
C9_CadenceRelaxes ==
    (/\ widget = "full" /\ ~testMode /\ Quiet
     /\ eewData = Null /\ ~ActiveTsunami
     /\ quakeData # Null /\ now - quakeData.time > StaleWindow)
    => pollingInterval = NormalInterval

\* C10: leaving test mode restores the live quake and tsunami events and the
\* last-announced timestamp to their values before enterTest (stated where
\* an event had been announced before the test; checked under SpecHistory).
C10_TestLeavesLiveState ==
    [][(/\ widget = "full" /\ testMode /\ ~testMode'
        /\ preTest.last # NoTime)
       => /\ quakeData' = preTest.quake
          /\ tsunamiData' = preTest.tsunami
          /\ lastAlertTime' = preTest.last]_vars

\* C11: enterTest plays the alert sound once: in the full widget the step
\* that enters test mode plays the one test sound, and no other step that
\* ends with test mode on plays any sound.
C11_TestSoundOnce ==
    [][(widget = "full" /\ testMode') =>
          sound' = IF ~testMode THEN {<<"TEST", now>>} ELSE {}]_vars

\* C11 witness: test mode is on, its effects have run without a sound, and
\* the synthetic event is not the one lastAlertTime records.
C11_Witness ==
    /\ widget = "full" /\ testMode /\ Quiet /\ sound = {}
    /\ eewData # Null /\ eewData.time # lastAlertTime

\* C12: in the full widget, from enterTest until exitTest activeMode is EEW
\* in every state, and once the effects have run no rotation interval is
\* armed (so no rotation tick occurs).
C12_TestHoldsEEW ==
    (widget = "full" /\ testMode) =>
        /\ activeMode = "EEW"
        /\ Quiet => rotationTimers = << >>

\* C13: exitTest results in exactly one fetch per feed.  In the full widget
\* the pass that follows exitTest resumes both pollers, each fetching at
\* once; after it, while the cells exitTest emptied are still empty and its
\* delayed refresh has not fired yet, no further pass runs the details
\* poller effect again (which would fetch a second time).
C13_ExitPollsOnce ==
    (/\ widget = "full" /\ ~testMode /\ online
     /\ Len(refreshTimeouts) > 0
     /\ quakeData = Null /\ tsunamiData = Null /\ eewData = Null
     /\ "eewPoller" \notin pending)
    => "detailsPoller" \notin pending

\* C14: while test mode is on, the manual poll-all operation, run by the
\* refresh button or by a 'system-sync' event, issues no fetch and changes
\* no stored event.
C14_ManualPollIdleInTest ==
    [][(testMode /\ (SystemSync \/ handleManualRefresh)) =>
          UNCHANGED <<eewInFlight, detInFlight, quakeData, tsunamiData,
                      eewData>>]_vars

\* responses that carry no usable record: a transport failure, a bad status
\* or empty body, an unparsable body, an entry 0 of unexpected shape
BadEEWResponses ==
    {Fail, Throw, NoBody, Blank}
    \cup {rawEEW(t, FALSE, TRUE, FALSE) : t \in Times}

BadDetailsResponses == {Fail, Throw, NoBody, Blank, Bare}

\* C15: a response that carries no usable record leaves quakeData,
\* tsunamiData and eewData as they were (full and component widgets).
C15_BadResponseKeepsCells ==
    [][widget # "eewOnly" =>
          /\ \A r \in BadEEWResponses : ApplyEEW(r) => eewData' = eewData
          /\ \A q \in BadDetailsResponses, t \in BadDetailsResponses :
                (ApplyDetails(q, t) \/ ResumeWith(t)) =>
                    (quakeData' = quakeData /\ tsunamiData' = tsunamiData)]_vars

\* the period the EEW poller is written with
EEWPeriodOf(w) == IF w = "eewOnly" THEN EEWPeriodEewOnly ELSE EEWPeriod

\* C16: the EEW polling interval has its fixed period, it changes only in a
\* run of the EEW poller effect, and that effect becomes pending only when
\* test mode is toggled (it is pending at mount): no change of the stored
\* events or of pollingInterval cancels or restarts the interval.
C16_EEWTimerFixed ==
    [][/\ \A i \in 1..Len(eewTimers') :
             eewTimers'[i].period = EEWPeriodOf(widget)
       /\ eewTimers' # eewTimers => "eewPoller" \in pending
       /\ ("eewPoller" \in pending' /\ "eewPoller" \notin pending)
             => testMode' # testMode]_vars

\* C16 witness: the cadence has been tightened by a stored event while the
\* EEW interval armed at mount is still the one armed.
C16_Witness ==
    /\ widget = "full" /\ ~testMode /\ Quiet
    /\ pollingInterval = EmergencyInterval /\ quakeData # Null
    /\ Len(eewTimers) = 1 /\ eewTimers[1].period = EEWPeriod

\* C19: in the full widget (where every fetch in flight during test mode was
\* started before enterTest) a response that arrives while test mode is on
\* changes none of eewData, quakeData, tsunamiData.
C19_LateResponseIgnored ==
    [][(/\ widget = "full" /\ testMode
        /\ (DeliverEEW \/ DeliverDetails \/ ResumeDetails)) =>
          UNCHANGED <<eewData, quakeData, tsunamiData>>]_vars

\* characters of the source script: everything but Latin letters and the space
SourceScript(c) ==
    /\ c # " "
    /\ \A i \in 1..Len(Upper) : c # Upper[i] /\ c # Lower[i]

FukushimaNakadori == <<"u798f", "u5cf6", "u770c", "u4e2d", "u901a", "u308a">>

\* C17: in every variant, translateText of Fukushima-ken Nakadori returns a
\* text that contains FUKUSHIMA and PREF and has no character of the source
\* script left.
C17_FukushimaTranslated ==
    (trIn = FukushimaNakadori /\ trOut # Untranslated) =>
        /\ Contains(trOut, <<"F", "U", "K", "U", "S", "H", "I", "M", "A">>)
        /\ Contains(trOut, <<"P", "R", "E", "F">>)
        /\ \A i \in 1..Len(trOut) : ~SourceScript(trOut[i])

\* a strong quake and an active tsunami of another time, no EEW, test mode off
QuakeAndTsunami ==
    /\ widget = "full" /\ ~testMode /\ eewData = Null
    /\ quakeData # Null /\ quakeData.maxScale >= AlertScale
    /\ ActiveTsunami
    /\ quakeData.time # tsunamiData.time

\* C18: with a quake of maxScale >= 30 and a non-cancelled tsunami of another
\* time stored, no EEW and test mode off, the alert logic comes to rest: from
\* every such state the widget reaches a state with no effect pending (no
\* sound, no write of lastAlertTime, no extra detail fetch to come) unless the
\* stored events change first.
C18_AlertQuiesces == QuakeAndTsunami ~> (Quiet \/ ~QuakeAndTsunami)

\* C20: once the responses of all details fetches have been applied, each
\* feed's stored event is the one the fetch issued last answered with: a late
\* response to an older fetch has not overwritten it.
C20_LaterFetchWins ==
    (widget = "full" /\ flights = << >>) =>
        /\ IsEntry(newest.quake) => quakeData = newest.quake
        /\ IsEntry(newest.tsunami) => tsunamiData = newest.tsunami

\* C21: in the full widget, once the pending effects have run, with no EEW
\* stored and test mode off, displayMode is Seismic or Tsunami (it is EEW only
\* while an EEW is stored or test mode is on).
C21_EEWOnlyWithEvent ==
    (widget = "full" /\ Quiet /\ eewData = Null /\ ~testMode)
    => activeMode \in {"EARTHQUAKE", "TSUNAMI"}

\* the display still on EEW with no EEW stored and test mode off
StrandedOnEEW ==
    /\ widget = "full" /\ ~testMode
    /\ eewData = Null /\ activeMode = "EEW"

\* C22: once the stored EEW is cleared (cancelled, stale, or removed by
\* exitTest), displayMode leaves EEW unless a new EEW or a new test comes
\* first, and it has left EEW after the first rotation tick that follows.
C22_LeavesEEW ==
    /\ StrandedOnEEW ~> ~StrandedOnEEW
    /\ [][((RotationTick \/ RotationTickEarly) /\ eewData = Null /\ ~testMode)
            => activeMode' \in {"EARTHQUAKE", "TSUNAMI"}]_vars

\* C22 witness: the effects have run after a clearance, the rotation interval
\* is armed again and the display is still on EEW.
C22_Witness ==
    /\ StrandedOnEEW /\ Quiet
    /\ Len(rotationTimers) = 1

\* C23: in the full widget, a rotation tick with no EEW stored and test mode
\* off turns Seismic into Tsunami and Tsunami into Seismic; while an EEW is
\* stored no step is a rotation tick, and once the effects have run no
\* rotation interval is armed, whatever the EEW polls bring.
C23_RotationAlternates ==
    [][widget = "full" =>
         /\ ((RotationTick \/ RotationTickEarly)
                 /\ eewData = Null /\ ~testMode) =>
               /\ activeMode = "EARTHQUAKE" => activeMode' = "TSUNAMI"
               /\ activeMode = "TSUNAMI" => activeMode' = "EARTHQUAKE"
         /\ eewData # Null => ~(RotationTick \/ RotationTickEarly)
         /\ (eewData' # Null /\ pending' = {}) => rotationTimers' = << >>]_vars

\* C24: in the full widget, the effect pass that follows a change of
\* pollingInterval alone (the details poller effect is due, the EEW poller
\* effect is not, the alert effect does not fire) issues no details fetch: the
\* change waits for the next tick of the running loop.
C24_CadenceChangeWaits ==
    [][(/\ widget = "full"
        /\ RunEffectsFull
        /\ "detailsPoller" \in pending /\ "eewPoller" \notin pending
        /\ ~("alert" \in pending /\ alertFires))
       => detInFlight' = detInFlight]_vars

\* C25: in the full and the component widget, when one of the two details
\* feeds fails, has no usable body or is malformed, the entry the other feed
\* delivered in the same cycle is still stored: the quake entry is stored
\* whatever the tsunami response, and with whatever quake response the call
\* goes on to read the tsunami body and stores its entry.
C25_OtherFeedApplied ==
    [][widget # "eewOnly" =>
         /\ \A q \in QuakeEntries, t \in BadDetailsResponses :
               ApplyDetails(q, t) => quakeData' = q
         /\ \A q \in BadDetailsResponses, t \in TsunamiEntries :
               ApplyDetails(q, t) => detMid' > detMid
         /\ \A t \in TsunamiEntries :
               ResumeWith(t) => tsunamiData' = t]_vars

\* C26: after the component is unmounted no timer of its making remains: the
\* EEW interval, the details interval, the rotation interval and the delayed
\* refresh of exitTest are all cancelled.
C26_NoTimerAfterStop ==
    ~mounted =>
        /\ eewTimers = << >> /\ detailsTimers = << >>
        /\ rotationTimers = << >> /\ refreshTimeouts = << >>

\* C27: in every reachable state at most one EEW polling interval, at most one
\* details polling interval and at most one rotation interval are armed.
C27_OneTimerEach ==
    /\ Len(eewTimers) <= 1
    /\ Len(detailsTimers) <= 1
    /\ Len(rotationTimers) <= 1

\* C27 witness: the full widget after an announced event and a cadence
\* change, all three intervals armed.
C27_Witness ==
    /\ widget = "full" /\ ~testMode /\ Quiet
    /\ lastAlertTime # NoTime /\ now > lastAlertTime
    /\ pollingInterval = EmergencyInterval
    /\ Len(eewTimers) = 1 /\ Len(detailsTimers) = 1
    /\ eewData = Null /\ Len(rotationTimers) = 1

\* C28: however many times playAlertSound is called, the audio contexts
\* created and still open stay below a constant (here MaxContexts).
C28_AudioBounded == audioOpen < MaxContexts

\* the order MajorWarning > Warning > Watch > anything else
GradeRank(g) ==
    CASE g = "MajorWarning" -> 3
      [] g = "Warning" -> 2
      [] g = "Watch" -> 1
      [] OTHER -> 0

\* C29: for every list of areas the stored maxGrade is the worst grade among
\* them under MajorWarning > Warning > Watch > Unknown: no area ranks above
\* it, it is Unknown when no area has a recognised grade (an empty list
\* included), and otherwise it is the grade of one of the areas.
C29_WorstGrade ==
    gradeOut # NoGrade =>
        /\ \A i \in 1..Len(areasIn) : GradeRank(areasIn[i]) <= GradeRank(gradeOut)
        /\ gradeOut \in {"MajorWarning", "Warning", "Watch", "Unknown"}
        /\ GradeRank(gradeOut) = 0 => gradeOut = "Unknown"
        /\ GradeRank(gradeOut) > 0 => SomeGrade(areasIn, gradeOut)

\* C29 witness: a Warning, an unrecognised grade and a MajorWarning, in this
\* order, reduced to MajorWarning.
C29_Witness ==
    /\ areasIn = <<"Warning", "Advisory", "MajorWarning">>
    /\ gradeOut = "MajorWarning"

\* in the order of entries, a key that is a proper part of another key comes
\* after it
LongerKeyFirst(entries) ==
    \A i \in 1..Len(entries), j \in 1..Len(entries) :
        (/\ Len(entries[i][1]) < Len(entries[j][1])
         /\ Contains(entries[j][1], entries[i][1]))
        => j < i

\* C30: in every variant of translateText, whenever a key of a dictionary is
\* a proper substring of another key of the same dictionary, the longer key
\* is substituted before the shorter one.
C30_LongerKeyBeforeShorter ==
    LongerKeyFirst(prefKeys(widget)) /\ LongerKeyFirst(suffixKeys(widget))

\* C30 witness: the sorted variant has translated Fukushima-ken Nakadori with
\* its six-character key, ahead of the two-character key for Fukushima.
C30_Witness ==
    /\ widget = "eewOnly" /\ trIn = FukushimaNakadori
    /\ trOut = <<"F", "U", "K", "U", "S", "H", "I", "M", "A", " ",
                 "N", "A", "K", "A", "D", "O", "R", "I">>

====
